---- MODULE Spec2Model ----
(***************************************************************************)
(* A model of the BACnet/IP client of siemens_bacnet_connector/bacnet.py:  *)
(* the frame and APDU encoders, the ReadPropertyMultiple-Ack decoder, and  *)
(* the two request paths of BACnetClient (read_multiple over               *)
(* _BACnetSegmentedProtocol, write over _send and BACnetRequest), run      *)
(* against a peer that may send any datagram of a small set, in any order. *)
(* Datagrams are sequences of bytes; the code's 0-based indexing is kept   *)
(* through At and From.                                                    *)
(***************************************************************************)
EXTENDS Naturals, Integers, Sequences, FiniteSets, TLC

\* ---------------------------------------------------------------- bounds

\* The most datagrams the peer sends during one call.
MaxPeerDatagrams == 3

\* The most datagrams waiting in the protocol's queue at one time.
MaxQueue == 2

\* The tasks that call one facade, and the most calls they make between them.
MaxTasks == 2
MaxCalls == 3

\* ------------------------------------------------------------- constants

APDU_CONFIRMED_REQ == 0
APDU_SIMPLE_ACK == 2
APDU_COMPLEX_ACK == 3
APDU_SEGMENT_ACK == 4

SEGMENTED_RESPONSE_ACCEPTED == 2
MORE_SEGMENTS == 4
SEGMENTED_REQUEST == 8

MAX_RESPONSE_SEGMENTS == 4
MAX_APDU_SIZE == 4
INVOKE_ID == 1

TAG_OBJECT_TYPE_SHIFT == 22
TAG_INSTANCE_ID_MASK == 4194303

TAG_OPEN == 6
TAG_CLOSE == 7
TAG_NO_PROPERTY_VALUE == 4
TAG_NO_PROPERTY_ACCESS_ERROR == 5
PROPERTY_ACCESS_ERROR_SIZE == 4

READ_PROPERTY_MULTIPLE == 14
WRITE_PROPERTY == 15

BVLC_TYPE == 129
BVLC_FUNCTION_UNICAST == 10
BVLC_FUNCTION_BROADCAST == 11
BVLC_LENGTH == 4

NPDU_VERSION == 1
NPDU_EXPECT_REPLY == 4
NPDU == <<NPDU_VERSION, NPDU_EXPECT_REPLY>>

DESCRIPTION == 28
OBJECT_NAME == 77
PRESENT_VALUE == 85
PRIORITY_ARRAY == 87
ReadValue == {DESCRIPTION, OBJECT_NAME, PRESENT_VALUE, PRIORITY_ARRAY}

ANALOG_INPUT == 0
ANALOG_OUTPUT == 1
ANALOG_VALUE == 2
BINARY_INPUT == 3
BINARY_VALUE == 5
DEVICE == 8
MULTI_STATE_VALUE == 19
POSITIVE_INTEGER_VALUE == 48
ObjectType == {ANALOG_INPUT, ANALOG_OUTPUT, ANALOG_VALUE, BINARY_INPUT,
               BINARY_VALUE, DEVICE, MULTI_STATE_VALUE, POSITIVE_INTEGER_VALUE}

WriteType_UnsignedInt == 2
WriteType_Real == 4
WriteType_Enumerated == 9

PRIORITY_ARRAY_PROPERTY_ID == 87

\* ------------------------------------------------------- bytes and struct

\* 2^n
RECURSIVE Pow2(_)
Pow2(n) == IF n = 0 THEN 1 ELSE 2 * Pow2(n - 1)

\* data[i] of the code (0-based); the caller checks i < Len(data).
At(data, i) == data[i + 1]

\* data[a:] of the code: empty when a is at or past the end.
From(data, a) == IF a >= Len(data) THEN <<>> ELSE SubSeq(data, a + 1, Len(data))

\* data[a:b] of the code (0 <= a), clamped to the data as Python clamps it.
Slice(data, a, b) ==
    LET hi == IF b > Len(data) THEN Len(data) ELSE b
    IN  IF a >= hi THEN <<>> ELSE SubSeq(data, a + 1, hi)

\* x & mask for a mask that is one bit, 2^k.
HasBit(x, bit) == (x \div bit) % 2 = 1

\* pack("!H", n): two bytes, big endian.
PackH(n) == <<(n \div 256) % 256, n % 256>>

\* pack("!I", n): four bytes, big endian.
PackI(n) == <<(n \div 16777216) % 256, (n \div 65536) % 256, (n \div 256) % 256, n % 256>>

\* b"".join(parts)
RECURSIVE Join(_)
Join(parts) == IF parts = <<>> THEN <<>> ELSE Head(parts) \o Join(Tail(parts))

\* ------------------------------------------------------------------- Tag

\* A faulty Tag.int: the class bit is set for application tags.
TagIntClassInverted(number, is_context, length_type) ==
    number * 16 + (IF is_context THEN 0 ELSE 8) + length_type

\* Tag.int: number << 4 | ctx | length_type
TagInt(number, is_context, length_type) ==
    number * 16 + (IF is_context THEN 8 ELSE 0) + length_type

CtxTag(number, length_type) == TagInt(number, TRUE, length_type)

AppTag(number, length_type) == TagInt(number, FALSE, length_type)

\* --------------------------------------------------------------- framing

\* A faulty Frame: the length leaves out the BVLC header.
FrameLengthWithoutHeader(apdu) ==
    <<BVLC_TYPE, BVLC_FUNCTION_UNICAST>> \o PackH(Len(NPDU) + Len(apdu)) \o NPDU \o apdu

\* pack("!BBH", BVLC_TYPE, BVLC_FUNCTION_UNICAST, BVLC_LENGTH + len(NPDU) + len(apdu))
\* followed by NPDU and the APDU, as every builder of the client frames its APDU.
Frame(apdu) ==
    <<BVLC_TYPE, BVLC_FUNCTION_UNICAST>> \o PackH(BVLC_LENGTH + Len(NPDU) + Len(apdu))
        \o NPDU \o apdu

\* A request header without the segmented-response flag and the segment count.
RequestHeaderUnsegmented(service_choice) ==
    <<APDU_CONFIRMED_REQ * 16, MAX_APDU_SIZE, INVOKE_ID, service_choice>>

\* The first four bytes of every confirmed request.
RequestHeader(service_choice) ==
    << APDU_CONFIRMED_REQ * 16 + SEGMENTED_RESPONSE_ACCEPTED,
       MAX_RESPONSE_SEGMENTS * 16 + MAX_APDU_SIZE,
       INVOKE_ID,
       service_choice >>

\* ------------------------------------------------------------- encoders

\* A DeviceProperty: [object_type, instance_id, read_values, priority,
\* write_type], 0 standing for a priority or write_type of None;
\* self.read_values = read_values or [ReadValue.PRESENT_VALUE].
DeviceProperty(object_type, instance_id, read_values, priority, write_type) ==
    [object_type |-> object_type, instance_id |-> instance_id,
     read_values |-> IF read_values = <<>> THEN <<PRESENT_VALUE>> ELSE read_values,
     priority |-> priority, write_type |-> write_type]

\* a | b on non-negative integers
RECURSIVE BitOr(_, _)
BitOr(a, b) ==
    IF a = 0 THEN b
    ELSE IF b = 0 THEN a
    ELSE (IF a % 2 = 1 \/ b % 2 = 1 THEN 1 ELSE 0) + 2 * BitOr(a \div 2, b \div 2)

\* pack("!I", self.object_type << TAG_OBJECT_TYPE_SHIFT | self.instance_id)
apdu_object_identifier(dp) ==
    <<CtxTag(0, 4)>>
    \o PackI(BitOr(dp.object_type * Pow2(TAG_OBJECT_TYPE_SHIFT), dp.instance_id))

RECURSIVE PropertyReferences(_)
PropertyReferences(read_values) ==
    IF read_values = <<>> THEN <<>>
    ELSE <<CtxTag(0, 1), Head(read_values)>> \o PropertyReferences(Tail(read_values))

\* A read access spec that lacks its closing tag.
ReadAccessSpecUnclosed(dp) ==
    apdu_object_identifier(dp) \o <<CtxTag(1, TAG_OPEN)>>
        \o PropertyReferences(dp.read_values)

read_access_spec(dp) ==
    apdu_object_identifier(dp) \o <<CtxTag(1, TAG_OPEN)>>
        \o PropertyReferences(dp.read_values) \o <<CtxTag(1, TAG_CLOSE)>>

RECURSIVE ReadAccessSpecs(_)
ReadAccessSpecs(device_properties) ==
    IF device_properties = <<>> THEN <<>>
    ELSE read_access_spec(Head(device_properties)) \o ReadAccessSpecs(Tail(device_properties))

_read_property_multiple(device_properties) ==
    Frame(RequestHeader(READ_PROPERTY_MULTIPLE) \o ReadAccessSpecs(device_properties))

\* A faulty _segment_ack: window size and sequence number change places.
SegmentAckFieldsSwapped(invoke_id, sequence_number, window_size) ==
    Frame(<<APDU_SEGMENT_ACK * 16, invoke_id, window_size, sequence_number>>)

_segment_ack(invoke_id, sequence_number, window_size) ==
    Frame(<<APDU_SEGMENT_ACK * 16, invoke_id, sequence_number, window_size>>)

\* A value handed to write(): [t |-> "None"], [t |-> "int", n |-> n] or
\* [t |-> "float", n |-> h] for the float h/2.
NoneValue == [t |-> "None", n |-> 0]
IntValue(n) == [t |-> "int", n |-> n]
FloatValue(halves) == [t |-> "float", n |-> halves]

\* The largest k with 2^k <= n, for n >= 1.
RECURSIVE Log2(_)
Log2(n) == IF n < 2 THEN 0 ELSE 1 + Log2(n \div 2)

\* A pack that writes the float's integer part as a 32-bit integer.
PackFAsInteger(halves) == PackI(halves \div 2)

\* pack("!f", h/2) for h >= 0: the IEEE-754 single of the float h/2, as 4 bytes.
PackF(halves) ==
    IF halves = 0 THEN <<0, 0, 0, 0>>
    ELSE LET k == Log2(halves)
             mantissa == (halves - Pow2(k)) * Pow2(23 - k)
         IN  PackI((k - 1 + 127) * Pow2(23) + mantissa)

\* An encoder's outcome: the bytes, or the exception pack() raises.
Bytes(b) == [ok |-> TRUE, bytes |-> b, err |-> "none"]
EncodeError(e) == [ok |-> FALSE, bytes |-> <<>>, err |-> e]

\* pack("!BB", tag, value): value must be an int in 0..255.
PackBB(tag, value) ==
    IF value.t = "int" /\ value.n <= 255 THEN Bytes(<<tag, value.n>>)
    ELSE EncodeError("struct.error")

\* The application primitive write_access_spec puts between the ctx-tag 3 tags.
WritePrimitive(object_type, value) ==
    IF value.t = "None" THEN Bytes(<<AppTag(0, 0)>>)
    ELSE IF object_type = ANALOG_VALUE
    THEN Bytes(<<AppTag(WriteType_Real, 4)>>
               \o PackF(IF value.t = "int" THEN 2 * value.n ELSE value.n))
    ELSE IF object_type = BINARY_VALUE
    THEN PackBB(AppTag(WriteType_Enumerated, 1), value)
    ELSE PackBB(AppTag(WriteType_UnsignedInt, 1), value)

\* A write_access_spec that lets the descriptor's write_type choose the
\* primitive when it is given.
WriteAccessSpecByHint(dp, value) ==
    LET prim == WritePrimitive(CASE dp.write_type = WriteType_Real -> ANALOG_VALUE
                                 [] dp.write_type = WriteType_Enumerated -> BINARY_VALUE
                                 [] dp.write_type = WriteType_UnsignedInt -> MULTI_STATE_VALUE
                                 [] OTHER -> dp.object_type,
                               value)
    IN  IF ~prim.ok THEN prim
        ELSE Bytes(apdu_object_identifier(dp) \o <<CtxTag(1, 1), PRESENT_VALUE>>
                   \o <<CtxTag(3, TAG_OPEN)>> \o prim.bytes \o <<CtxTag(3, TAG_CLOSE)>>
                   \o (IF dp.priority # 0 THEN <<CtxTag(4, 1), dp.priority>> ELSE <<>>))

write_access_spec(dp, value) ==
    LET prim == WritePrimitive(dp.object_type, value)
    IN  IF ~prim.ok THEN prim
        ELSE Bytes(apdu_object_identifier(dp) \o <<CtxTag(1, 1), PRESENT_VALUE>>
                   \o <<CtxTag(3, TAG_OPEN)>> \o prim.bytes \o <<CtxTag(3, TAG_CLOSE)>>
                   \o (IF dp.priority # 0 THEN <<CtxTag(4, 1), dp.priority>> ELSE <<>>))

_write_property(device_property, value) ==
    LET spec == write_access_spec(device_property, value)
    IN  IF ~spec.ok THEN spec
        ELSE Bytes(Frame(RequestHeader(WRITE_PROPERTY) \o spec.bytes))

\* -------------------------------------------------------------- decoder
\* Each method of BACnetDecoder is an operator of the buffer, the cursor and the
\* method's arguments; the operators named ...After, ...Of and ...Next are the rest of
\* a method after one of its reads, given that read's outcome.

\* A decoder step's outcome: the cursor after it and the value read, or the
\* exception it raises.
Ok(i, v) == [ok |-> TRUE, i |-> i, v |-> v, err |-> "none"]
Raise(e) == [ok |-> FALSE, i |-> 0, v |-> <<>>, err |-> e]

eof(data, i) == i >= Len(data)

read_bytes(data, i, n) ==
    IF i + n > Len(data) THEN Raise("DecodingError")
    ELSE Ok(i + n, Slice(data, i, i + n))

read_byte(data, i) ==
    IF i + 1 > Len(data) THEN Raise("DecodingError")
    ELSE Ok(i + 1, At(data, i))

\* The tag as (number, class, type/length).
TagOf(number, class, lvt) == [number |-> number, class |-> class, lvt |-> lvt]

\* read_tag after the extended length byte.
ExtendedTagOf(byte, ext) ==
    IF ~ext.ok THEN ext
    ELSE Ok(ext.i, TagOf(byte \div 16, (byte \div 8) % 2, ext.v))

\* read_tag after the tag byte.
TagAfterByte(data, b) ==
    IF ~b.ok THEN b
    ELSE IF b.v % 8 = 5 THEN ExtendedTagOf(b.v, read_byte(data, b.i))
    ELSE Ok(b.i, TagOf(b.v \div 16, (b.v \div 8) % 2, b.v % 8))

read_tag(data, i) == TagAfterByte(data, read_byte(data, i))

\* A peek_tag without its finally clause.
KeepCursor(saved, t) == t

\* finally: self.i = saved
RestoreCursor(saved, t) == IF ~t.ok THEN t ELSE Ok(saved, t.v)

peek_tag(data, i) == RestoreCursor(i, read_tag(data, i))

\* The class test of read_context_tag (1) and read_application_tag (0).
RequireClass(class, t) ==
    IF ~t.ok THEN t
    ELSE IF t.v.class # class THEN Raise("DecodingError")
    ELSE t

read_context_tag(data, i) == RequireClass(1, read_tag(data, i))

read_application_tag(data, i) == RequireClass(0, read_tag(data, i))

\* An object identifier as the code returns it: (ObjectType, instance number).
ObjectId(object_type, instance_number) ==
    [object_type |-> object_type, instance_number |-> instance_number]

\* For the four bytes b of unpack("!I", b): data >> TAG_OBJECT_TYPE_SHIFT and
\* data & 0x3FFFFF, each computed from the bytes so that no intermediate value
\* needs more than 31 bits.
\* A faulty InstanceBits: a mask of 21 bits.
InstanceBitsShort(b) == ((b[2] % 32) * 256 + b[3]) * 256 + b[4]

ObjectTypeBits(b) == b[1] * 4 + b[2] \div 64
InstanceBits(b) == ((b[2] % 64) * 256 + b[3]) * 256 + b[4]

\* unpack("!I", ...) of the bytes read, which must be four, then
\* ObjectType(data >> TAG_OBJECT_TYPE_SHIFT) and data & 0x3FFFFF.
UnpackObjectId(b) ==
    IF ~b.ok THEN b
    ELSE IF Len(b.v) # 4 THEN Raise("struct.error")
    ELSE IF ObjectTypeBits(b.v) \notin ObjectType THEN Raise("ValueError")
    ELSE Ok(b.i, ObjectId(ObjectTypeBits(b.v), InstanceBits(b.v)))

ObjectIdentifierAfterTag(data, t) ==
    IF ~t.ok THEN t
    ELSE IF t.v.number # 0 THEN Raise("DecodingError")
    ELSE UnpackObjectId(read_bytes(data, t.i, t.v.lvt))

parse_object_identifier(data, i) ==
    ObjectIdentifierAfterTag(data, read_context_tag(data, i))

\* The Python values the decoder returns, by type: None, bool, int, float (kept as
\* the IEEE-754 bytes it was unpacked from), str (its UTF-8 bytes), the
\* (ObjectType, instance) tuple, the {"tag", "raw"} dict and the list.
PyValue(t, n, raw, items) == [t |-> t, n |-> n, raw |-> raw, items |-> items]
PyNone == PyValue("None", 0, <<>>, <<>>)
PyBool(b) == PyValue("bool", IF b THEN 1 ELSE 0, <<>>, <<>>)
PyInt(n) == PyValue("int", n, <<>>, <<>>)
PyFloat(raw) == PyValue("float", 0, raw, <<>>)
PyStr(raw) == PyValue("str", 0, raw, <<>>)
PyObjectId(oid) == PyValue("tuple", oid.object_type, <<oid.instance_number>>, <<>>)
PyUnknown(tag, raw) == PyValue("dict", tag, raw, <<>>)
PyList(items) == PyValue("list", 0, <<>>, items)

\* int.from_bytes(b, "big")
RECURSIVE FromBytes(_, _)
FromBytes(b, acc) == IF b = <<>> THEN acc ELSE FromBytes(Tail(b), acc * 256 + Head(b))

\* parse_unsinged_int and parse_enumarated_value: length times
\* value = (value << 8) | self.read_byte().
RECURSIVE ReadBigEndian(_, _, _, _)
RECURSIVE BigEndianNext(_, _, _, _)
BigEndianNext(data, length, value, b) ==
    IF ~b.ok THEN b ELSE ReadBigEndian(data, b.i, length - 1, value * 256 + b.v)

ReadBigEndian(data, i, length, value) ==
    IF length = 0 THEN Ok(i, PyInt(value))
    ELSE BigEndianNext(data, length, value, read_byte(data, i))

parse_enumarated_value(data, i, length) == ReadBigEndian(data, i, length, 0)

parse_unsinged_int(data, i, length) == ReadBigEndian(data, i, length, 0)

\* raw - (1 << (length * 8)) if (raw & sign_bit) else raw, for the bytes b of
\* raw: sign_bit is the top bit of the first byte, and the subtraction lowers
\* the first byte by 256, so that no intermediate value needs more than 31 bits.
TwosComplement(b) ==
    IF b[1] >= 128 THEN FromBytes(Tail(b), b[1] - 256) ELSE FromBytes(b, 0)

\* 1 << (length * 8 - 1) raises ValueError for length 0 (a negative shift count).
SignedOf(length, b) ==
    IF ~b.ok THEN b
    ELSE IF length = 0 THEN Raise("ValueError")
    ELSE Ok(b.i, PyInt(TwosComplement(b.v)))

parse_signed_int(data, i, length) == SignedOf(length, read_bytes(data, i, length))

FloatOf(b) == IF ~b.ok THEN b ELSE Ok(b.i, PyFloat(b.v))

\* A parse_float that reads one byte less than the tag announces.
ParseFloatShort(data, i, length) ==
    IF length # 4 THEN Raise("DecodingError") ELSE FloatOf(read_bytes(data, i, length - 1))

parse_float(data, i, length) ==
    IF length # 4 THEN Raise("DecodingError") ELSE FloatOf(read_bytes(data, i, length))

parse_double(data, i, length) ==
    IF length # 8 THEN Raise("DecodingError") ELSE FloatOf(read_bytes(data, i, length))

\* Whether b is well-formed UTF-8, as bytes.decode("utf-8") requires.
Cont(b, k) == Len(b) >= k /\ b[k] >= 128 /\ b[k] <= 191
RECURSIVE Utf8(_)
Utf8(b) ==
    IF b = <<>> THEN TRUE
    ELSE IF b[1] < 128 THEN Utf8(Tail(b))
    ELSE IF b[1] >= 194 /\ b[1] <= 223 THEN Cont(b, 2) /\ Utf8(From(b, 2))
    ELSE IF b[1] >= 224 /\ b[1] <= 239
    THEN /\ Cont(b, 2) /\ Cont(b, 3)
         /\ (b[1] = 224 => b[2] >= 160)
         /\ (b[1] = 237 => b[2] <= 159)
         /\ Utf8(From(b, 3))
    ELSE IF b[1] >= 240 /\ b[1] <= 244
    THEN /\ Cont(b, 2) /\ Cont(b, 3) /\ Cont(b, 4)
         /\ (b[1] = 240 => b[2] >= 144)
         /\ (b[1] = 244 => b[2] <= 143)
         /\ Utf8(From(b, 4))
    ELSE FALSE

StringOf(b) ==
    IF ~b.ok THEN b
    ELSE IF ~Utf8(b.v) THEN Raise("UnicodeDecodeError")
    ELSE Ok(b.i, PyStr(b.v))

\* With length 0, read_bytes(-1) reads nothing and moves the cursor back by one:
\* self.i + n > len(self.data) is false for n = -1.
StringAfterEncoding(data, length, encoding) ==
    IF ~encoding.ok THEN encoding
    ELSE IF encoding.v # 0 THEN Raise("DecodingError")
    ELSE StringOf(read_bytes(data, encoding.i, length - 1))

parse_string(data, i, length) == StringAfterEncoding(data, length, read_byte(data, i))

AsPyObjectId(oid) == IF ~oid.ok THEN oid ELSE Ok(oid.i, PyObjectId(oid.v))

parse_application_object_identifier(data, i, length) ==
    IF length # 4 THEN Raise("DecodingError")
    ELSE AsPyObjectId(UnpackObjectId(read_bytes(data, i, length)))

\* NULL: the content bytes, if any, are read and dropped.
NoneOf(b) == IF ~b.ok THEN b ELSE Ok(b.i, PyNone)

\* A fallback that keeps the tag number and drops the bytes.
UnknownDropsRaw(tag_number, raw) ==
    IF ~raw.ok THEN raw ELSE Ok(raw.i, PyUnknown(tag_number, <<>>))

\* The fallback: {"tag": tag_number, "raw": raw}
UnknownOf(tag_number, raw) ==
    IF ~raw.ok THEN raw ELSE Ok(raw.i, PyUnknown(tag_number, raw.v))

parse_value_element(data, i, tag_number, tag_len_or_val) ==
    CASE tag_number = 0 ->
            IF tag_len_or_val # 0 THEN NoneOf(read_bytes(data, i, tag_len_or_val))
            ELSE Ok(i, PyNone)
      [] tag_number = 1 -> Ok(i, PyBool(tag_len_or_val # 0))
      [] tag_number = 2 -> parse_unsinged_int(data, i, tag_len_or_val)
      [] tag_number = 3 -> parse_signed_int(data, i, tag_len_or_val)
      [] tag_number = 4 -> parse_float(data, i, tag_len_or_val)
      [] tag_number = 5 -> parse_double(data, i, tag_len_or_val)
      [] tag_number = 7 -> parse_string(data, i, tag_len_or_val)
      [] tag_number = 9 -> parse_enumarated_value(data, i, tag_len_or_val)
      [] tag_number = 12 -> parse_application_object_identifier(data, i, tag_len_or_val)
      [] OTHER -> UnknownOf(tag_number, read_bytes(data, i, tag_len_or_val))

\* parse_value_element(tag_number, tag_length) of the application tag just read.
ValueAfterTag(data, app) ==
    IF ~app.ok THEN app
    ELSE parse_value_element(data, app.i, app.v.number, app.v.lvt)

\* The loop of parse_priority_array, values being the elements read so far.
RECURSIVE PriorityArrayLoop(_, _, _, _)
RECURSIVE PriorityArrayAppend(_, _, _, _)
RECURSIVE PriorityArrayNext(_, _, _, _, _)
PriorityArrayAppend(data, opening_tag_number, values, element) ==
    IF ~element.ok THEN element
    ELSE PriorityArrayLoop(data, element.i, opening_tag_number, Append(values, element.v))

PriorityArrayNext(data, i, opening_tag_number, values, t) ==
    IF ~t.ok THEN t
    ELSE IF t.v.class = 1 /\ t.v.number = opening_tag_number /\ t.v.lvt = TAG_CLOSE
    THEN Ok(i, PyList(values))
    ELSE PriorityArrayAppend(data, opening_tag_number, values,
                             ValueAfterTag(data, read_application_tag(data, i)))

PriorityArrayLoop(data, i, opening_tag_number, values) ==
    PriorityArrayNext(data, i, opening_tag_number, values, peek_tag(data, i))

parse_priority_array(data, i, opening_tag_number) ==
    PriorityArrayLoop(data, i, opening_tag_number, <<>>)

\* self.read_bytes(PROPERTY_ACCESS_ERROR_SIZE): the bytes are dropped and value
\* stays the 0 it was initialised to.
AccessErrorOf(b) == IF ~b.ok THEN b ELSE Ok(b.i, PyInt(0))

\* What read_value reads between the opening and the closing tag.
ReadValueBody(data, i, opening_tag_number, property_id) ==
    IF opening_tag_number = TAG_NO_PROPERTY_VALUE
    THEN IF property_id = PRIORITY_ARRAY_PROPERTY_ID
         THEN parse_priority_array(data, i, opening_tag_number)
         ELSE ValueAfterTag(data, read_application_tag(data, i))
    ELSE IF opening_tag_number = TAG_NO_PROPERTY_ACCESS_ERROR
    THEN AccessErrorOf(read_bytes(data, i, PROPERTY_ACCESS_ERROR_SIZE))
    ELSE Ok(i, PyInt(0))

\* read_value's test of the closing tag.
ClosedValueOf(opening_tag_number, value, close) ==
    IF ~close.ok THEN close
    ELSE IF close.v.number # opening_tag_number \/ close.v.lvt # TAG_CLOSE
    THEN Raise("DecodingError")
    ELSE Ok(close.i, value)

ReadValueClose(data, opening_tag_number, value) ==
    IF ~value.ok THEN value
    ELSE ClosedValueOf(opening_tag_number, value.v, read_context_tag(data, value.i))

ReadValueAfterOpen(data, property_id, open) ==
    IF ~open.ok THEN open
    ELSE IF open.v.lvt # TAG_OPEN THEN Raise("DecodingError")
    ELSE ReadValueClose(data, open.v.number,
                        ReadValueBody(data, open.i, open.v.number, property_id))

read_value(data, i, property_id) ==
    ReadValueAfterOpen(data, property_id, read_context_tag(data, i))

\* The loop of parse_list_of_results, results being the entries read so far.
RECURSIVE ListOfResultsLoop(_, _, _, _)
RECURSIVE ListOfResultsAppend(_, _, _, _, _)
RECURSIVE ListOfResultsProperty(_, _, _, _)
RECURSIVE ListOfResultsNext(_, _, _, _)
ListOfResultsAppend(data, opening_tag_number, results, prop_id, value) ==
    IF ~value.ok THEN value
    ELSE ListOfResultsLoop(data, value.i, opening_tag_number,
                           Append(results, <<prop_id, value.v>>))

\* read_value = ReadValue(prop_id) raises ValueError outside the enumeration.
ListOfResultsProperty(data, opening_tag_number, results, prop_id) ==
    IF ~prop_id.ok THEN prop_id
    ELSE IF prop_id.v \notin ReadValue THEN Raise("ValueError")
    ELSE ListOfResultsAppend(data, opening_tag_number, results, prop_id.v,
                             read_value(data, prop_id.i, prop_id.v))

ListOfResultsNext(data, opening_tag_number, results, t) ==
    IF ~t.ok THEN t
    ELSE IF t.v.number = opening_tag_number /\ t.v.lvt = TAG_CLOSE THEN Ok(t.i, results)
    ELSE IF t.v.number # 2 THEN Raise("DecodingError")
    ELSE ListOfResultsProperty(data, opening_tag_number, results, read_byte(data, t.i))

ListOfResultsLoop(data, i, opening_tag_number, results) ==
    ListOfResultsNext(data, opening_tag_number, results, read_context_tag(data, i))

ListOfResultsAfterOpen(data, open) ==
    IF ~open.ok THEN open
    ELSE IF open.v.lvt # TAG_OPEN THEN Raise("DecodingError")
    ELSE ListOfResultsLoop(data, open.i, open.v.number, <<>>)

parse_list_of_results(data, i) == ListOfResultsAfterOpen(data, read_context_tag(data, i))

\* device_state[object_id] = properties: a DeviceState is the dict's items in
\* insertion order; assigning to a key already there keeps the key's place.
DictSet(device_state, object_id, properties) ==
    IF \E k \in 1..Len(device_state) : device_state[k].key = object_id
    THEN [k \in 1..Len(device_state) |->
            IF device_state[k].key = object_id
            THEN [key |-> object_id, value |-> properties]
            ELSE device_state[k]]
    ELSE Append(device_state, [key |-> object_id, value |-> properties])

\* The while not decoder.eof() loop of _parse_read_property_multiple_response.
RECURSIVE ObjectLoop(_, _, _)
RECURSIVE ObjectLoopResults(_, _, _, _)
RECURSIVE ObjectLoopObject(_, _, _)
ObjectLoopResults(apdu, device_state, object_id, properties) ==
    IF ~properties.ok THEN properties
    ELSE ObjectLoop(apdu, properties.i, DictSet(device_state, object_id, properties.v))

ObjectLoopObject(apdu, device_state, object_id) ==
    IF ~object_id.ok THEN object_id
    ELSE ObjectLoopResults(apdu, device_state, object_id.v,
                           parse_list_of_results(apdu, object_id.i))

ObjectLoop(apdu, i, device_state) ==
    IF eof(apdu, i) THEN Ok(i, device_state)
    ELSE ObjectLoopObject(apdu, device_state, parse_object_identifier(apdu, i))

\* A faulty CheckApduHeader: the invoke id goes untested.
CheckApduHeaderAnyInvokeId(apdu, apdu_type, service_choice) ==
    IF Len(apdu) < 1 THEN "IndexError"
    ELSE IF At(apdu, 0) \div 16 # apdu_type THEN "DecodingError"
    ELSE IF Len(apdu) < 3 THEN "IndexError"
    ELSE IF At(apdu, 2) # service_choice THEN "DecodingError"
    ELSE "none"

\* unpack("!BBH", response[0:4]) and the test of the BVLC type and function.
CheckBvlc(response) ==
    IF Len(response) < BVLC_LENGTH THEN "struct.error"
    ELSE IF At(response, 0) # BVLC_TYPE \/ At(response, 1) # BVLC_FUNCTION_UNICAST
    THEN "DecodingError"
    ELSE "none"

\* The tests of apdu[0] >> 4, apdu[1] and apdu[2] both parsers make, in that order.
CheckApduHeader(apdu, apdu_type, service_choice) ==
    IF Len(apdu) < 1 THEN "IndexError"
    ELSE IF At(apdu, 0) \div 16 # apdu_type THEN "DecodingError"
    ELSE IF Len(apdu) < 2 THEN "IndexError"
    ELSE IF At(apdu, 1) # INVOKE_ID THEN "DecodingError"
    ELSE IF Len(apdu) < 3 THEN "IndexError"
    ELSE IF At(apdu, 2) # service_choice THEN "DecodingError"
    ELSE "none"

\* The header tests of a parser: the first exception they raise, or "none".
CheckResponse(response, apdu_type, service_choice) ==
    IF CheckBvlc(response) # "none" THEN CheckBvlc(response)
    ELSE CheckApduHeader(From(response, BVLC_LENGTH + Len(NPDU)), apdu_type, service_choice)

_parse_read_property_multiple_response(response) ==
    IF CheckResponse(response, APDU_COMPLEX_ACK, READ_PROPERTY_MULTIPLE) # "none"
    THEN Raise(CheckResponse(response, APDU_COMPLEX_ACK, READ_PROPERTY_MULTIPLE))
    ELSE ObjectLoop(From(response, BVLC_LENGTH + Len(NPDU)), 3, <<>>)

\* A faulty _parse_write_property_response: the BVLC header goes untested.
ParseWriteResponseAnyBvlc(response) ==
    IF CheckApduHeader(From(response, BVLC_LENGTH + Len(NPDU)), APDU_SIMPLE_ACK,
                       WRITE_PROPERTY) # "none"
    THEN Raise(CheckApduHeader(From(response, BVLC_LENGTH + Len(NPDU)), APDU_SIMPLE_ACK,
                               WRITE_PROPERTY))
    ELSE Ok(0, <<>>)

_parse_write_property_response(response) ==
    IF CheckResponse(response, APDU_SIMPLE_ACK, WRITE_PROPERTY) # "none"
    THEN Raise(CheckResponse(response, APDU_SIMPLE_ACK, WRITE_PROPERTY))
    ELSE Ok(0, <<>>)

\* ----------------------------------------------------------------- peer

\* A ReadPropertyMultiple-Ack payload, (ANALOG_VALUE, 134) -> PRESENT_VALUE = 5,
\* and the two pieces a segmenting peer cuts it into.
PayloadHead == <<12, 0, 128, 0, 134, 30>>
PayloadTail == <<41, 85, 78, 33, 5, 79, 31>>
Payload == PayloadHead \o PayloadTail

\* What the peer puts on the wire: any BVLC type and function, the length of the
\* whole datagram, the NPDU and an APDU.
PeerFrame(bvlc_type, bvlc_function, apdu) ==
    <<bvlc_type, bvlc_function>> \o PackH(BVLC_LENGTH + Len(NPDU) + Len(apdu))
        \o NPDU \o apdu

\* The APDU layouts of the protocol's replies.
ComplexAck(invoke_id, service_choice, payload) ==
    <<APDU_COMPLEX_ACK * 16, invoke_id, service_choice>> \o payload

FirstSegment(flags, invoke_id, sequence_number, window_size, service_choice, payload) ==
    <<APDU_COMPLEX_ACK * 16 + flags, invoke_id, sequence_number, window_size,
      service_choice>> \o payload

NextSegment(flags, invoke_id, sequence_number, window_size, payload) ==
    <<APDU_COMPLEX_ACK * 16 + flags, invoke_id, sequence_number, window_size>> \o payload

SimpleAck(invoke_id, service_choice) == <<APDU_SIMPLE_ACK * 16, invoke_id, service_choice>>

\* The peer's APDUs: whole replies, first and later segments with either invoke
\* id and either service, acknowledgements, an Error PDU and truncated ones.
PeerApdus ==
    {ComplexAck(1, READ_PROPERTY_MULTIPLE, Payload),
     ComplexAck(1, READ_PROPERTY_MULTIPLE, PayloadHead),
     ComplexAck(2, READ_PROPERTY_MULTIPLE, Payload),
     ComplexAck(1, WRITE_PROPERTY, Payload)}
    \cup {FirstSegment(SEGMENTED_REQUEST + MORE_SEGMENTS, inv, 0, 16, svc, PayloadHead) :
            inv \in {1, 2}, svc \in {READ_PROPERTY_MULTIPLE}}
    \cup {FirstSegment(SEGMENTED_REQUEST + MORE_SEGMENTS, 1, 0, 16, WRITE_PROPERTY,
                       PayloadHead),
          FirstSegment(MORE_SEGMENTS, 1, 0, 16, READ_PROPERTY_MULTIPLE, PayloadHead),
          FirstSegment(SEGMENTED_REQUEST, 1, 0, 16, READ_PROPERTY_MULTIPLE, Payload)}
    \cup {NextSegment(SEGMENTED_REQUEST + MORE_SEGMENTS, 1, 1, 4, <<>>),
          NextSegment(SEGMENTED_REQUEST + MORE_SEGMENTS, 1, 2, 4, PayloadHead),
          NextSegment(SEGMENTED_REQUEST, 1, 1, 4, PayloadTail),
          NextSegment(SEGMENTED_REQUEST, 1, 2, 16, PayloadTail),
          NextSegment(SEGMENTED_REQUEST, 2, 1, 4, PayloadTail)}
    \cup {SimpleAck(1, WRITE_PROPERTY), SimpleAck(2, WRITE_PROPERTY),
          SimpleAck(1, READ_PROPERTY_MULTIPLE)}
    \cup {<<80, 1, READ_PROPERTY_MULTIPLE, 145, 2, 145, 32>>}
    \cup {<<>>, <<APDU_COMPLEX_ACK * 16 + SEGMENTED_REQUEST + MORE_SEGMENTS, 1>>}

\* The same replies under a BVLC function or type the client does not accept.
BroadcastApdus ==
    {ComplexAck(1, READ_PROPERTY_MULTIPLE, Payload),
     FirstSegment(SEGMENTED_REQUEST + MORE_SEGMENTS, 1, 0, 16, READ_PROPERTY_MULTIPLE,
                  PayloadHead),
     SimpleAck(1, WRITE_PROPERTY)}

ForeignTypeApdus ==
    {NextSegment(SEGMENTED_REQUEST, 1, 1, 4, PayloadTail), SimpleAck(1, WRITE_PROPERTY)}

PeerDatagrams ==
    {PeerFrame(BVLC_TYPE, BVLC_FUNCTION_UNICAST, apdu) : apdu \in PeerApdus}
    \cup {PeerFrame(BVLC_TYPE, BVLC_FUNCTION_BROADCAST, apdu) : apdu \in BroadcastApdus}
    \cup {PeerFrame(BVLC_TYPE + 1, BVLC_FUNCTION_UNICAST, apdu) : apdu \in ForeignTypeApdus}
    \cup {<<BVLC_TYPE, BVLC_FUNCTION_UNICAST>>}

\* What the callers ask for.
ReadRequests == {<<DeviceProperty(ANALOG_VALUE, 134, <<PRESENT_VALUE>>, 0, 0)>>}

WriteRequests ==
    {<<DeviceProperty(ANALOG_VALUE, 127, <<PRESENT_VALUE>>, 16, 0), FloatValue(41)>>,
     <<DeviceProperty(BINARY_VALUE, 10, <<PRESENT_VALUE>>, 0, 0), FloatValue(41)>>}

\* ---------------------------------------------------------------- state

VARIABLES
    op,             \* the call in progress: "none", "read" (read_multiple), "write"
    pc,             \* where the call's coroutine is suspended, or "idle" / "done"
    transport,      \* "none", "open", "closing" (close() called), "closed"
    sent,           \* the datagrams handed to transport.sendto, in order
    queue,          \* _BACnetSegmentedProtocol.queue
    exception,      \* the protocol's exception attribute: "unset", "None", "exc"
    response,       \* BACnetRequest.response: <<>> while unassigned, else <<data>>
    done,           \* BACnetRequest.done: "pending", "result", "cancelled"
    unhandled,      \* the exception a protocol callback raised into the loop
    invoke_id,      \* read_multiple's locals while segmenting
    service_choice,
    data_parts,
    outcome,        \* how the call ended: [kind, err, value]
    received,       \* the datagrams the call took from its protocol, in order
    decoder_input,  \* <<response>> once a response went to the decoder
    error_seen,     \* error_received was called before the call ended
    timed_out,      \* a wait_for of the call ran into its timeout
    peer_count      \* datagrams the peer has sent

\* The variables of one call on a BACnetClient.
client_vars == <<op, pc, transport, sent, queue, exception, response, done, unhandled,
                 invoke_id, service_choice, data_parts, outcome, received, decoder_input,
                 error_seen, timed_out, peer_count>>

\* A SiemensBACnet facade and the tasks calling it.
VARIABLES
    _state,         \* SiemensBACnet._state
    task,           \* per task: the facade call it is in and that call's locals
    calls           \* the facade calls made so far

facade_vars == <<_state, task, calls>>

\* The encoders and the decoder on their own: a reply under
\* _parse_read_property_multiple_response, a BACnetDecoder object under its
\* methods, and the request builders.
VARIABLES
    reply,          \* the ReadPropertyMultiple-Ack a device builds, object by object
    trailing,       \* the bytes that follow the reply's objects in the datagram
    decoded,        \* <<>> before _parse_read_property_multiple_response ran, else <<outcome>>
    self_data,      \* BACnetDecoder.data
    self_i,         \* BACnetDecoder.i
    operation,      \* the method last called on the decoder, its arguments and outcome
    encoded         \* <<>>, or the builder last called, its arguments and outcome

codec_vars == <<reply, trailing, decoded, self_data, self_i, operation, encoded>>

vars == <<client_vars, facade_vars, codec_vars>>

NoOutcome == [kind |-> "none", err |-> "none", value |-> <<>>]
Returned(value) == [kind |-> "return", err |-> "none", value |-> value]
Raised(err) == [kind |-> "raise", err |-> err, value |-> <<>>]

ClientInit ==
    /\ op = "none"
    /\ pc = "idle"
    /\ transport = "none"
    /\ sent = <<>>
    /\ queue = <<>>
    /\ exception = "unset"
    /\ response = <<>>
    /\ done = "pending"
    /\ unhandled = "none"
    /\ invoke_id = 0
    /\ service_choice = 0
    /\ data_parts = <<>>
    /\ outcome = NoOutcome
    /\ received = <<>>
    /\ decoder_input = <<>>
    /\ error_seen = FALSE
    /\ timed_out = FALSE
    /\ peer_count = 0

\* transport.close(): the first call schedules connection_lost, later ones do nothing.
Close(t) == IF t = "open" THEN "closing" ELSE t

\* ------------------------------------------------------- read_multiple

\* What one run of read_multiple between two awaits does: the SegmentAcks it sends,
\* its locals afterwards, and either the next await ("await_segment"), the response
\* it hands to the decoder ("decode") or the exception it raises ("raise").
Step(next, err, acks, inv, svc, parts, resp) ==
    [next |-> next, err |-> err, acks |-> acks, invoke_id |-> inv,
     service_choice |-> svc, data_parts |-> parts, response |-> resp]

\* A faulty StepRaise: a SegmentAck goes out before the exception is raised.
StepRaiseAfterAck(err) ==
    Step("raise", err, <<Frame(<<APDU_SEGMENT_ACK * 16, INVOKE_ID, 0, 0>>)>>, 0, 0, <<>>, <<>>)

\* A raise out of read_multiple: nothing is sent and the locals are gone.
StepRaise(err) == Step("raise", err, <<>>, 0, 0, <<>>, <<>>)

\* A faulty IsSegmented: every COMPLEX_ACK counts as a segment.
IsSegmentedWhateverFlags(apdu0) == apdu0 \div 16 = APDU_COMPLEX_ACK

\* apdu_type == COMPLEX_ACK and (apdu[0] & (SEGMENTED_REQUEST | MORE_SEGMENTS))
IsSegmented(apdu0) ==
    /\ apdu0 \div 16 = APDU_COMPLEX_ACK
    /\ (HasBit(apdu0, SEGMENTED_REQUEST) \/ HasBit(apdu0, MORE_SEGMENTS))

\* A faulty Reassemble: the parts are joined last first.
ReassembleLastFirst(inv, svc, parts) ==
    Bytes(<<BVLC_TYPE, BVLC_FUNCTION_UNICAST>>
          \o PackH(BVLC_LENGTH + Len(NPDU) + 3 + Len(Join(parts))) \o NPDU
          \o <<APDU_COMPLEX_ACK * 16, inv, svc>>
          \o Join([j \in 1..Len(parts) |-> parts[Len(parts) + 1 - j]]))

\* The response read_multiple builds after the last segment; pack("!BBH", ...)
\* raises struct.error for a length over 65535.
Reassemble(inv, svc, parts) ==
    LET full_apdu == <<APDU_COMPLEX_ACK * 16, inv, svc>> \o Join(parts)
    IN  IF BVLC_LENGTH + Len(NPDU) + Len(full_apdu) > 65535
        THEN EncodeError("struct.error")
        ELSE Bytes(<<BVLC_TYPE, BVLC_FUNCTION_UNICAST>>
                   \o PackH(BVLC_LENGTH + Len(NPDU) + Len(full_apdu)) \o NPDU \o full_apdu)

\* The end of the segmented branch: after the ack of a segment, await the next
\* segment or reassemble.
AfterSegment(more_segments, ack, inv, svc, parts) ==
    IF more_segments THEN Step("await_segment", "none", <<ack>>, inv, svc, parts, <<>>)
    ELSE LET resp == Reassemble(inv, svc, parts)
         IN  IF ~resp.ok THEN Step("raise", resp.err, <<ack>>, inv, svc, parts, <<>>)
             ELSE Step("decode", "none", <<ack>>, inv, svc, parts, resp.bytes)

\* From the first reply to the next await, the decoder or an exception.
FirstReply(resp, exc) ==
    LET apdu == From(resp, BVLC_LENGTH + Len(NPDU))
    IN  IF exc # "None" THEN StepRaise("ConnectionError")
        ELSE IF Len(apdu) < 1 THEN StepRaise("IndexError")
        ELSE IF IsSegmented(At(apdu, 0))
        THEN IF Len(apdu) < 5 THEN StepRaise("IndexError")
             ELSE AfterSegment(HasBit(At(apdu, 0), MORE_SEGMENTS),
                               _segment_ack(At(apdu, 1), At(apdu, 2), At(apdu, 3)),
                               At(apdu, 1), At(apdu, 4), <<From(apdu, 5)>>)
        ELSE Step("decode", "none", <<>>, 0, 0, <<>>, resp)

\* A faulty NextSegmentReply: a segment is refused unless its sequence number
\* is the number of segments taken before it.
NextSegmentReplyInOrder(segment, inv, svc, parts) ==
    LET apdu == From(segment, BVLC_LENGTH + Len(NPDU))
    IN  IF Len(apdu) < 1 THEN StepRaise("IndexError")
        ELSE IF At(apdu, 0) \div 16 # APDU_COMPLEX_ACK THEN StepRaise("DecodingError")
        ELSE IF Len(apdu) < 2 THEN StepRaise("IndexError")
        ELSE IF At(apdu, 1) # inv THEN StepRaise("DecodingError")
        ELSE IF Len(apdu) < 4 THEN StepRaise("IndexError")
        ELSE IF At(apdu, 2) # Len(parts) THEN StepRaise("DecodingError")
        ELSE AfterSegment(HasBit(At(apdu, 0), MORE_SEGMENTS),
                          _segment_ack(inv, At(apdu, 2), At(apdu, 3)),
                          inv, svc, Append(parts, From(apdu, 4)))

\* One pass of the while more_segments loop, from the segment received.
NextSegmentReply(segment, inv, svc, parts) ==
    LET apdu == From(segment, BVLC_LENGTH + Len(NPDU))
    IN  IF Len(apdu) < 1 THEN StepRaise("IndexError")
        ELSE IF At(apdu, 0) \div 16 # APDU_COMPLEX_ACK THEN StepRaise("DecodingError")
        ELSE IF Len(apdu) < 2 THEN StepRaise("IndexError")
        ELSE IF At(apdu, 1) # inv THEN StepRaise("DecodingError")
        ELSE IF Len(apdu) < 4 THEN StepRaise("IndexError")
        ELSE AfterSegment(HasBit(At(apdu, 0), MORE_SEGMENTS),
                          _segment_ack(inv, At(apdu, 2), At(apdu, 3)),
                          inv, svc, Append(parts, From(apdu, 4)))

\* The call's outcome from a parser's: the value returned or the exception, a
\* DecodingError raised again as DecodingError.
OutcomeOf(r) == IF r.ok THEN Returned(r.v) ELSE Raised(r.err)

DecodeOutcome(resp) == OutcomeOf(_parse_read_property_multiple_response(resp))

\* The call goes on as the step says; it ends through finally: transport.close().
Advance(step) ==
    /\ sent' = sent \o step.acks
    /\ invoke_id' = step.invoke_id
    /\ service_choice' = step.service_choice
    /\ data_parts' = step.data_parts
    /\ IF step.next = "await_segment"
       THEN /\ pc' = "await_segment"
            /\ UNCHANGED <<transport, outcome, decoder_input>>
       ELSE /\ pc' = "done"
            /\ transport' = Close(transport)
            /\ IF step.next = "decode"
               THEN /\ decoder_input' = <<step.response>>
                    /\ outcome' = DecodeOutcome(step.response)
               ELSE /\ outcome' = Raised(step.err)
                    /\ UNCHANGED decoder_input

\* read_multiple up to its first await: the endpoint is created and the request sent.
StartRead ==
    /\ pc = "idle"
    /\ \E device_properties \in ReadRequests :
          sent' = <<_read_property_multiple(device_properties)>>
    /\ op' = "read"
    /\ pc' = "await_first"
    /\ transport' = "open"
    /\ exception' = "None"
    /\ UNCHANGED <<queue, response, done, unhandled, invoke_id, service_choice,
                   data_parts, outcome, received, decoder_input, error_seen, peer_count,
                   timed_out>>
    /\ UNCHANGED <<facade_vars, codec_vars>>

\* response = await protocol.receive(timeout=1.0) returns a datagram.
ReceiveFirst ==
    /\ pc = "await_first"
    /\ queue # <<>>
    /\ queue' = Tail(queue)
    /\ received' = Append(received, Head(queue))
    /\ Advance(FirstReply(Head(queue), exception))
    /\ UNCHANGED <<op, exception, response, done, unhandled, error_seen, peer_count, timed_out>>
    /\ UNCHANGED <<facade_vars, codec_vars>>

\* segment = await protocol.receive(timeout=1.0) returns a datagram.
ReceiveSegment ==
    /\ pc = "await_segment"
    /\ queue # <<>>
    /\ queue' = Tail(queue)
    /\ received' = Append(received, Head(queue))
    /\ Advance(NextSegmentReply(Head(queue), invoke_id, service_choice, data_parts))
    /\ UNCHANGED <<op, exception, response, done, unhandled, error_seen, peer_count, timed_out>>
    /\ UNCHANGED <<facade_vars, codec_vars>>

\* A faulty ReadTimeout: the first timeout sends the request again and waits on.
ReadTimeoutResends ==
    /\ pc \in {"await_first", "await_segment"}
    /\ queue = <<>>
    /\ IF timed_out
       THEN /\ pc' = "done"
            /\ outcome' = Raised("TimeoutError")
            /\ transport' = Close(transport)
            /\ UNCHANGED <<sent, timed_out>>
       ELSE /\ timed_out' = TRUE
            /\ sent' = Append(sent, sent[1])
            /\ UNCHANGED <<pc, outcome, transport>>
    /\ UNCHANGED <<op, queue, exception, response, done, unhandled, invoke_id,
                   service_choice, data_parts, received, decoder_input, error_seen,
                   peer_count>>
    /\ UNCHANGED <<facade_vars, codec_vars>>

\* asyncio.wait_for gives up on queue.get(): TimeoutError leaves through finally.
ReadTimeout ==
    /\ pc \in {"await_first", "await_segment"}
    /\ queue = <<>>
    /\ pc' = "done"
    /\ timed_out' = TRUE
    /\ outcome' = Raised("TimeoutError")
    /\ transport' = Close(transport)
    /\ UNCHANGED <<op, sent, queue, exception, response, done, unhandled, invoke_id,
                   service_choice, data_parts, received, decoder_input, error_seen,
                   peer_count>>
    /\ UNCHANGED <<facade_vars, codec_vars>>

\* A faulty ReadCancel: the cancelled call leaves without transport.close().
ReadCancelLeavesOpen ==
    /\ pc \in {"await_first", "await_segment"}
    /\ pc' = "done"
    /\ outcome' = Raised("CancelledError")
    /\ UNCHANGED <<op, transport, sent, queue, exception, response, done, unhandled,
                   invoke_id, service_choice, data_parts, received, decoder_input,
                   error_seen, timed_out, peer_count>>
    /\ UNCHANGED <<facade_vars, codec_vars>>

\* The caller cancels the task while it awaits: CancelledError leaves through finally.
ReadCancel ==
    /\ pc \in {"await_first", "await_segment"}
    /\ pc' = "done"
    /\ outcome' = Raised("CancelledError")
    /\ transport' = Close(transport)
    /\ UNCHANGED <<op, sent, queue, exception, response, done, unhandled, invoke_id,
                   service_choice, data_parts, received, decoder_input, error_seen,
                   peer_count, timed_out>>
    /\ UNCHANGED <<facade_vars, codec_vars>>

\* --------------------------------------------------------------- write

\* write up to the await in _send: the request is built, the endpoint created and
\* connection_made sends the request. A value pack() refuses ends the call first.
StartWrite ==
    /\ pc = "idle"
    /\ op' = "write"
    /\ \E w \in WriteRequests :
          LET request == _write_property(w[1], w[2])
          IN  IF request.ok
              THEN /\ sent' = <<request.bytes>>
                   /\ pc' = "await_done"
                   /\ transport' = "open"
                   /\ UNCHANGED outcome
              ELSE /\ pc' = "done"
                   /\ outcome' = Raised(request.err)
                   /\ UNCHANGED <<sent, transport>>
    /\ UNCHANGED <<queue, exception, response, done, unhandled, invoke_id,
                   service_choice, data_parts, received, decoder_input, error_seen,
                   peer_count, timed_out>>
    /\ UNCHANGED <<facade_vars, codec_vars>>

\* await bacnet_request.wait() returns: finally closes, then the exception test, then
\* the response goes to _parse_write_property_response.
WriteOutcome(exc, resp) ==
    IF exc = "unset" \/ (exc = "None" /\ resp = <<>>) THEN Raised("AttributeError")
    ELSE IF exc # "None" THEN Raised("ConnectionError")
    ELSE OutcomeOf(_parse_write_property_response(resp[1]))

WaitReturns ==
    /\ pc = "await_done"
    /\ done = "result"
    /\ pc' = "done"
    /\ transport' = Close(transport)
    /\ outcome' = WriteOutcome(exception, response)
    /\ received' = received \o response
    /\ decoder_input' = IF exception = "None" THEN response ELSE decoder_input
    /\ UNCHANGED <<op, sent, queue, exception, response, done, unhandled, invoke_id,
                   service_choice, data_parts, error_seen, peer_count, timed_out>>
    /\ UNCHANGED <<facade_vars, codec_vars>>

\* asyncio.wait_for gives up on done and cancels it: TimeoutError leaves through finally.
WriteTimeout ==
    /\ pc = "await_done"
    /\ done = "pending"
    /\ done' = "cancelled"
    /\ pc' = "done"
    /\ timed_out' = TRUE
    /\ outcome' = Raised("TimeoutError")
    /\ transport' = Close(transport)
    /\ UNCHANGED <<op, sent, queue, exception, response, unhandled, invoke_id,
                   service_choice, data_parts, received, decoder_input, error_seen,
                   peer_count>>
    /\ UNCHANGED <<facade_vars, codec_vars>>

\* The caller cancels the task while it awaits; wait_for cancels done with it.
WriteCancel ==
    /\ pc = "await_done"
    /\ done' = IF done = "pending" THEN "cancelled" ELSE done
    /\ pc' = "done"
    /\ outcome' = Raised("CancelledError")
    /\ transport' = Close(transport)
    /\ UNCHANGED <<op, sent, queue, exception, response, unhandled, invoke_id,
                   service_choice, data_parts, received, decoder_input, error_seen,
                   peer_count, timed_out>>
    /\ UNCHANGED <<facade_vars, codec_vars>>

\* ----------------------------------------------------- protocol callbacks

\* datagram_received of the protocol in use, for a datagram of the peer.
DatagramReceived ==
    /\ transport = "open"
    /\ peer_count < MaxPeerDatagrams
    /\ peer_count' = peer_count + 1
    /\ \E data \in PeerDatagrams :
          IF op = "read"
          THEN /\ Len(queue) < MaxQueue
               /\ queue' = Append(queue, data)
               /\ UNCHANGED <<response, transport>>
          ELSE /\ response' = <<data>>
               /\ transport' = Close(transport)
               /\ UNCHANGED queue
    /\ UNCHANGED <<op, pc, sent, exception, done, unhandled, invoke_id, service_choice,
                   data_parts, outcome, received, decoder_input, error_seen, timed_out>>
    /\ UNCHANGED <<facade_vars, codec_vars>>

\* error_received of either protocol: self.exception = exc.
ErrorReceived ==
    /\ transport = "open"
    /\ exception' = "exc"
    /\ error_seen' = TRUE
    /\ UNCHANGED <<op, pc, transport, sent, queue, response, done, unhandled, invoke_id,
                   service_choice, data_parts, outcome, received, decoder_input,
                   peer_count, timed_out>>
    /\ UNCHANGED <<facade_vars, codec_vars>>

\* connection_lost(None), which the loop calls once after transport.close().
\* BACnetRequest's also resolves done; set_result raises InvalidStateError on a
\* future that is no longer pending.
ConnectionLost ==
    /\ transport = "closing"
    /\ transport' = "closed"
    /\ exception' = "None"
    /\ IF op = "write"
       THEN IF done = "pending"
            THEN done' = "result" /\ UNCHANGED unhandled
            ELSE unhandled' = "InvalidStateError" /\ UNCHANGED done
       ELSE UNCHANGED <<done, unhandled>>
    /\ UNCHANGED <<op, pc, sent, queue, response, invoke_id, service_choice, data_parts,
                   outcome, received, decoder_input, error_seen, peer_count, timed_out>>
    /\ UNCHANGED <<facade_vars, codec_vars>>

\* -------------------------------------------------------------- facade

\* DEVICE_PROPERTIES has one entry per DeviceProperty of the catalog module;
\* descriptor d stands for its d-th entry, CatalogSize + 1 for _device_property.
CatalogSize == 67
chunk_size == 20

\* device_properties = DEVICE_PROPERTIES + [self._device_property]
device_properties == [d \in 1..(CatalogSize + 1) |-> d]

\* A faulty ChunkAt: the slice runs one descriptor too far.
ChunkAtOverlapping(i) ==
    SubSeq(device_properties, i + 1,
           IF i + chunk_size + 1 < Len(device_properties)
           THEN i + chunk_size + 1 ELSE Len(device_properties))

\* device_properties[i : i + chunk_size], i counted from 0 as in the code.
ChunkAt(i) ==
    SubSeq(device_properties, i + 1,
           IF i + chunk_size < Len(device_properties)
           THEN i + chunk_size ELSE Len(device_properties))

\* The requests a call puts on the wire, as the facade sees them.
ReadRequest(chunk) ==
    [service |-> READ_PROPERTY_MULTIPLE, invoke_id |-> INVOKE_ID, chunk |-> chunk]

WriteRequest(d) ==
    [service |-> WRITE_PROPERTY, invoke_id |-> INVOKE_ID, chunk |-> <<d>>]

\* The DeviceState read_multiple returns for a chunk: every descriptor of the
\* chunk with a value, which is marked here by the call that read it.
ResultOf(chunk, call_number) ==
    [d \in {chunk[k] : k \in 1..Len(chunk)} |-> call_number]

\* state.update(result)
DictUpdate(state, result) ==
    [d \in DOMAIN state \cup DOMAIN result |->
        IF d \in DOMAIN result THEN result[d] ELSE state[d]]

\* self._state: None, or a DeviceState.
NoState == [none |-> TRUE, dict |-> <<>>]
SomeState(dict) == [none |-> FALSE, dict |-> dict]

\* A task outside any call.
IdleTask ==
    [call |-> "none", number |-> 0, pc |-> "idle", i |-> 0, state |-> <<>>,
     requests |-> <<>>, acknowledged |-> FALSE, outcome |-> "none", observed |-> <<>>,
     during |-> {}]

FacadeInit ==
    /\ _state = NoState
    /\ task = [t \in 1..MaxTasks |-> IdleTask]
    /\ calls = 0

\* A task enters its next call: what the last call left is gone.
Enter(call, number) == [IdleTask EXCEPT !.call = call, !.number = number]

\* A call ends: its locals are gone, what it sent and how it ended remain.
Leave(r, how) == [r EXCEPT !.pc = "done", !.i = 0, !.state = <<>>, !.outcome = how]

\* update() up to its first await: the list is built and the first chunk requested.
BeginUpdate(r) ==
    [r EXCEPT !.pc = "reading", !.i = 0, !.state = <<>>,
              !.requests = Append(r.requests, ReadRequest(ChunkAt(0)))]

\* A faulty AfterChunk: every chunk's result goes straight into self._state.
AfterChunkInPlace(r, cache, result) ==
    IF r.i + chunk_size < Len(device_properties)
    THEN [task |-> [r EXCEPT !.i = r.i + chunk_size,
                             !.state = DictUpdate(r.state, result),
                             !.requests = Append(r.requests,
                                                 ReadRequest(ChunkAt(r.i + chunk_size)))],
          cache |-> SomeState(DictUpdate(cache.dict, result))]
    ELSE [task |-> Leave(r, "return"),
          cache |-> SomeState(DictUpdate(cache.dict, result))]

\* update() from the return of one read_multiple to the next await or its end:
\* the result is merged into the local state, then either the next chunk is
\* requested or self._state is assigned and the call (and a _set_value around
\* it) returns.
AfterChunk(r, cache, result) ==
    IF r.i + chunk_size < Len(device_properties)
    THEN [task |-> [r EXCEPT !.i = r.i + chunk_size,
                             !.state = DictUpdate(r.state, result),
                             !.requests = Append(r.requests,
                                                 ReadRequest(ChunkAt(r.i + chunk_size)))],
          cache |-> cache]
    ELSE [task |-> Leave(r, "return"),
          cache |-> SomeState(DictUpdate(r.state, result))]

\* The exceptions a client call ends with. The facade catches none of them, so
\* one kind stands for all.
CallErrors == {"TimeoutError"}

\* await self.update()
CallUpdate(t) ==
    /\ task[t].pc \in {"idle", "done"}
    /\ calls < MaxCalls
    /\ calls' = calls + 1
    /\ task' = [task EXCEPT ![t] = BeginUpdate(Enter("update", calls + 1))]
    /\ UNCHANGED <<_state, client_vars, codec_vars>>

\* await self.bacnet.read_multiple(chunk) returns.
ReadReturns(t) ==
    /\ task[t].pc = "reading"
    /\ task' = [task EXCEPT ![t] =
                  AfterChunk(task[t], _state, ResultOf(ChunkAt(task[t].i), task[t].number)).task]
    /\ _state' = AfterChunk(task[t], _state, ResultOf(ChunkAt(task[t].i), task[t].number)).cache
    /\ UNCHANGED <<calls, client_vars, codec_vars>>

\* A faulty ReadRaises: the chunks read so far are kept in self._state.
ReadRaisesKeepsPartial(t) ==
    /\ task[t].pc = "reading"
    /\ \E err \in CallErrors :
          task' = [task EXCEPT ![t] = Leave(task[t], err)]
    /\ _state' = SomeState(DictUpdate(_state.dict, task[t].state))
    /\ UNCHANGED <<calls, client_vars, codec_vars>>

\* await self.bacnet.read_multiple(chunk) raises: update() ends with the
\* exception, its local state is dropped.
ReadRaises(t) ==
    /\ task[t].pc = "reading"
    /\ \E err \in CallErrors :
          task' = [task EXCEPT ![t] = Leave(task[t], err)]
    /\ UNCHANGED <<_state, calls, client_vars, codec_vars>>

\* The descriptors the callers look up, the first of the catalog and the DEVICE
\* object's, and the one they write.
LookedUp == {1, CatalogSize + 1}
Written == {chunk_size + 1}

\* _set_value up to the await in write: the WriteProperty request is sent.
CallSetValue(t) ==
    /\ task[t].pc \in {"idle", "done"}
    /\ calls < MaxCalls
    /\ calls' = calls + 1
    /\ \E d \in Written :
          task' = [task EXCEPT ![t] =
                     [Enter("set_value", calls + 1) EXCEPT
                         !.pc = "writing", !.requests = <<WriteRequest(d)>>]]
    /\ UNCHANGED <<_state, client_vars, codec_vars>>

\* await self.bacnet.write(...) returns: the device has acknowledged the write;
\* update() starts.
WriteReturns(t) ==
    /\ task[t].pc = "writing"
    /\ task' = [task EXCEPT ![t] = BeginUpdate([@ EXCEPT !.acknowledged = TRUE])]
    /\ UNCHANGED <<_state, calls, client_vars, codec_vars>>

\* A faulty WriteRaises: the exception is swallowed and update() runs.
WriteRaisesSwallowed(t) ==
    /\ task[t].pc = "writing"
    /\ task' = [task EXCEPT ![t] = BeginUpdate(@)]
    /\ UNCHANGED <<_state, calls, client_vars, codec_vars>>

\* await self.bacnet.write(...) raises: _set_value ends with the exception.
WriteRaises(t) ==
    /\ task[t].pc = "writing"
    /\ \E err \in CallErrors : task' = [task EXCEPT ![t] = Leave(task[t], err)]
    /\ UNCHANGED <<_state, calls, client_vars, codec_vars>>

\* _get_value: the test for None, then dict(self._state[object_identifier])[value_name].
LookUp(r, cache, d) ==
    IF cache.none THEN Leave(r, "Exception")
    ELSE IF d \notin DOMAIN cache.dict
    THEN Leave([r EXCEPT !.observed = <<cache.dict>>], "KeyError")
    ELSE Leave([r EXCEPT !.observed = <<cache.dict>>], "return")

\* How far the update() calls of the other tasks have got.
UpdatesInProgress(t) ==
    {task[u].i : u \in {v \in 1..MaxTasks \ {t} : task[v].pc = "reading"}}

\* A faulty GetValue: a lookup into no cache leaves an empty one behind.
GetValueInitialises(t) ==
    /\ task[t].pc \in {"idle", "done"}
    /\ calls < MaxCalls
    /\ calls' = calls + 1
    /\ \E d \in LookedUp :
          task' = [task EXCEPT ![t] =
                     [LookUp(Enter("get_value", calls + 1), _state, d)
                        EXCEPT !.during = UpdatesInProgress(t)]]
    /\ _state' = IF _state.none THEN SomeState(<<>>) ELSE _state
    /\ UNCHANGED <<client_vars, codec_vars>>

\* A getter of the facade: one call of _get_value, which never awaits. during
\* records the updates it ran in the middle of.
GetValue(t) ==
    /\ task[t].pc \in {"idle", "done"}
    /\ calls < MaxCalls
    /\ calls' = calls + 1
    /\ \E d \in LookedUp :
          task' = [task EXCEPT ![t] =
                     [LookUp(Enter("get_value", calls + 1), _state, d)
                        EXCEPT !.during = UpdatesInProgress(t)]]
    /\ UNCHANGED <<_state, client_vars, codec_vars>>

FacadeNext ==
    \/ \E t \in 1..MaxTasks : CallUpdate(t)
    \/ \E t \in 1..MaxTasks : ReadReturns(t)
    \/ \E t \in 1..MaxTasks : ReadRaises(t)
    \/ \E t \in 1..MaxTasks : CallSetValue(t)
    \/ \E t \in 1..MaxTasks : WriteReturns(t)
    \/ \E t \in 1..MaxTasks : WriteRaises(t)
    \/ \E t \in 1..MaxTasks : GetValue(t)

\* ------------------------------------------------------------- decoder

\* The most objects and property results together in one reply.
MaxReplyItems == 4

\* The objects a device answers for.
DeviceObjects ==
    {DeviceProperty(ANALOG_VALUE, 134, <<>>, 0, 0), DeviceProperty(BINARY_VALUE, 5, <<>>, 0, 0)}

\* The property results a device sends, each as read_value reads it: the
\* property id, whether the wrapper is the propertyAccessError one, and the
\* bytes inside the wrapper. They are the unsigned values 0 and 5, access errors
\* with two contents, and priority arrays of 16 and of 2 Null elements.
DeviceResults ==
    {[property |-> PRESENT_VALUE, error |-> FALSE, body |-> <<AppTag(2, 1), 0>>],
     [property |-> PRESENT_VALUE, error |-> FALSE, body |-> <<AppTag(2, 1), 5>>],
     [property |-> PRESENT_VALUE, error |-> TRUE,
      body |-> <<AppTag(9, 1), 2, AppTag(9, 1), 32>>],
     [property |-> PRESENT_VALUE, error |-> TRUE, body |-> <<0, 0, 0, 0>>]}
    \cup {[property |-> PRIORITY_ARRAY, error |-> FALSE,
           body |-> [k \in 1..n |-> AppTag(0, 0)]] : n \in {2, 16}}

\* The bytes of one property result: property identifier, opening tag 4 or 5,
\* body, closing tag.
ResultBytes(r) ==
    <<CtxTag(2, 1), r.property,
      CtxTag(IF r.error THEN TAG_NO_PROPERTY_ACCESS_ERROR ELSE TAG_NO_PROPERTY_VALUE,
             TAG_OPEN)>>
    \o r.body
    \o <<CtxTag(IF r.error THEN TAG_NO_PROPERTY_ACCESS_ERROR ELSE TAG_NO_PROPERTY_VALUE,
                TAG_CLOSE)>>

\* The bytes of one object's results: object identifier, opening tag 1, the
\* results, closing tag 1.
BlockBytes(block) ==
    apdu_object_identifier(block.object)
    \o <<CtxTag(1, TAG_OPEN)>>
    \o Join([k \in 1..Len(block.results) |-> ResultBytes(block.results[k])])
    \o <<CtxTag(1, TAG_CLOSE)>>

\* The bytes a device may send after the objects of a reply: a further object
\* with PRESENT_VALUE = Real 21.5, the same with the first byte of the Real
\* missing, an object identifier of length 3, an application tag, and an object
\* identifier cut short.
TrailingBytes ==
    {<<12, 0, 128, 0, 134, 30, 41, 85, 78, 68, 65, 172, 0, 0, 79, 31>>,
     <<12, 0, 128, 0, 134, 30, 41, 85, 78, 68, 172, 0, 0, 79, 31>>,
     <<CtxTag(0, 3), 0, 0, 0>>,
     <<AppTag(0, 0)>>,
     <<CtxTag(0, 4), 0>>}

\* The datagram that carries the reply.
AckOf(blocks, tail) ==
    PeerFrame(BVLC_TYPE, BVLC_FUNCTION_UNICAST,
              ComplexAck(INVOKE_ID, READ_PROPERTY_MULTIPLE,
                         Join([b \in 1..Len(blocks) |-> BlockBytes(blocks[b])]) \o tail))

RECURSIVE ItemsIn(_)
ItemsIn(blocks) ==
    IF blocks = <<>> THEN 0 ELSE 1 + Len(Head(blocks).results) + ItemsIn(Tail(blocks))

\* No request built yet.
NoEncoding == [op |-> "none", args |-> <<>>, value |-> NoneValue, result |-> Bytes(<<>>)]

\* A decoder object before its construction.
NoOperation == [op |-> "none", args |-> <<>>, before |-> 0, result |-> Ok(0, <<>>)]

DecoderInit ==
    /\ reply = <<>>
    /\ trailing = <<>>
    /\ decoded = <<>>
    /\ self_data = <<>>
    /\ self_i = 0
    /\ operation = NoOperation
    /\ encoded = NoEncoding

\* The device starts the results of an object.
DeviceAddsObject ==
    /\ decoded = <<>>
    /\ trailing = <<>>
    /\ ItemsIn(reply) < MaxReplyItems
    /\ \E o \in DeviceObjects : reply' = Append(reply, [object |-> o, results |-> <<>>])
    /\ UNCHANGED <<trailing, decoded, self_data, self_i, operation, encoded>>
    /\ UNCHANGED <<client_vars, facade_vars>>

\* The device adds a property result to the object it is at.
DeviceAddsResult ==
    /\ decoded = <<>>
    /\ trailing = <<>>
    /\ reply # <<>>
    /\ ItemsIn(reply) < MaxReplyItems
    /\ \E r \in DeviceResults :
          reply' = [reply EXCEPT ![Len(reply)].results = Append(@, r)]
    /\ UNCHANGED <<trailing, decoded, self_data, self_i, operation, encoded>>
    /\ UNCHANGED <<client_vars, facade_vars>>

\* The device ends the datagram with further bytes.
DeviceAppendsBytes ==
    /\ decoded = <<>>
    /\ trailing = <<>>
    /\ \E tail \in TrailingBytes : trailing' = tail
    /\ UNCHANGED <<reply, decoded, self_data, self_i, operation, encoded>>
    /\ UNCHANGED <<client_vars, facade_vars>>

\* _parse_read_property_multiple_response(response) on the datagram.
Decode ==
    /\ decoded = <<>>
    /\ decoded' = <<_parse_read_property_multiple_response(AckOf(reply, trailing))>>
    /\ UNCHANGED <<reply, trailing, self_data, self_i, operation, encoded>>
    /\ UNCHANGED <<client_vars, facade_vars>>

DecoderNext ==
    \/ DeviceAddsObject
    \/ DeviceAddsResult
    \/ DeviceAppendsBytes
    \/ Decode

(***************************************************************************)
(* BACnetDecoder as an object: the buffer self.data, the cursor self.i and *)
(* the operation a caller ran last, with the cursor before it and what it  *)
(* returned or raised.                                                     *)
(***************************************************************************)

\* The longest content length a caller passes to read_bytes and
\* parse_value_element.
MaxLength == 4

\* The buffers a decoder is built on: an octet string of two bytes, a character
\* string of length 0 before a Null, a character string "O" with an extended
\* length byte, a property identifier under context tag 0, the content of a
\* Real, a tag cut before its extended length byte, and no bytes at all.
Buffers ==
    {<<AppTag(6, 2), 1, 2>>,
     <<AppTag(7, 0), 0>>,
     <<AppTag(7, 5), 2, 0, 79>>,
     <<CtxTag(0, 1), 85>>,
     <<65, 172, 0, 0>>,
     <<AppTag(7, 5)>>,
     <<>>}

\* self.i when read_tag raises: the tag byte is consumed when only the extended
\* length byte is missing.
CursorAtTagRaise(data, i) == IF eof(data, i) THEN i ELSE i + 1

\* self.i when parse_string raises: nothing is consumed when the encoding byte
\* is missing, the encoding byte when the encoding is not 0 or the characters
\* are cut short, and all of the string when it is not UTF-8.
CursorAtStringRaise(data, i, length) ==
    IF eof(data, i) THEN i
    ELSE IF At(data, i) # 0 \/ i + length > Len(data) THEN i + 1
    ELSE i + length

\* self.i when parse_value_element raises. parse_unsinged_int and
\* parse_enumarated_value read byte by byte up to the end of the buffer;
\* parse_application_object_identifier has read its four bytes when the object
\* type is unknown; the others raise before they move the cursor.
CursorAtRaise(data, i, tag_number, length) ==
    CASE tag_number \in {2, 9} -> Len(data)
      [] tag_number = 7 -> CursorAtStringRaise(data, i, length)
      [] tag_number = 12 -> IF length = 4 /\ i + 4 <= Len(data) THEN i + 4 ELSE i
      [] OTHER -> i

\* The decoder after an operation that started at self.i, given self.i after a
\* raise.
Ran(method, args, r, raised_at) ==
    /\ operation' = [op |-> method, args |-> args, before |-> self_i, result |-> r]
    /\ self_i' = IF r.ok THEN r.i ELSE raised_at

\* BACnetDecoder(data)
NewDecoder ==
    /\ \E data \in Buffers : self_data' = data
    /\ self_i' = 0
    /\ operation' = [op |-> "BACnetDecoder", args |-> <<>>, before |-> 0,
                     result |-> Ok(0, <<>>)]
    /\ UNCHANGED <<reply, trailing, decoded, encoded, client_vars, facade_vars>>

\* self.read_byte()
ReadByte ==
    /\ operation.op # "none"
    /\ Ran("read_byte", <<>>, read_byte(self_data, self_i), self_i)
    /\ UNCHANGED <<self_data, reply, trailing, decoded, encoded, client_vars, facade_vars>>

\* Whether the decoder is in parse_string between its two reads, the encoding
\* byte just read being 0.
InParseString ==
    /\ operation.op = "read_byte"
    /\ operation.result.ok
    /\ operation.result.v = 0

\* self.read_bytes(n). parse_string of a string of length 0 calls it with
\* n = -1 after its read_byte.
ReadBytes ==
    /\ operation.op # "none"
    /\ \E n \in -1..MaxLength :
          /\ n = -1 => InParseString
          /\ Ran("read_bytes", <<n>>, read_bytes(self_data, self_i, n), self_i)
    /\ UNCHANGED <<self_data, reply, trailing, decoded, encoded, client_vars, facade_vars>>

\* self.read_tag()
ReadTag ==
    /\ operation.op # "none"
    /\ Ran("read_tag", <<>>, read_tag(self_data, self_i),
           CursorAtTagRaise(self_data, self_i))
    /\ UNCHANGED <<self_data, reply, trailing, decoded, encoded, client_vars, facade_vars>>

\* self.peek_tag(): the finally clause restores the cursor on a raise too.
PeekTag ==
    /\ operation.op # "none"
    /\ Ran("peek_tag", <<>>, peek_tag(self_data, self_i), self_i)
    /\ UNCHANGED <<self_data, reply, trailing, decoded, encoded, client_vars, facade_vars>>

\* self.parse_value_element(tag_number, tag_len_or_val)
ParseValueElement ==
    /\ operation.op # "none"
    /\ \E tag_number \in 0..15, length \in 0..MaxLength :
          Ran("parse_value_element", <<tag_number, length>>,
              parse_value_element(self_data, self_i, tag_number, length),
              CursorAtRaise(self_data, self_i, tag_number, length))
    /\ UNCHANGED <<self_data, reply, trailing, decoded, encoded, client_vars, facade_vars>>

CursorNext ==
    \/ NewDecoder
    \/ ReadByte
    \/ ReadBytes
    \/ ReadTag
    \/ PeekTag
    \/ ParseValueElement

(***************************************************************************)
(* The request builders: the last request built, with the constructor      *)
(* arguments of its descriptors, the value written, and the bytes returned *)
(* or the exception raised.                                                *)
(***************************************************************************)

\* The most descriptors of one ReadPropertyMultiple request.
MaxDescriptors == 2

\* Instance numbers: of the catalog, and one that needs more than 22 bits.
InstanceIds == {111, 127, 134, Pow2(TAG_OBJECT_TYPE_SHIFT) + 127}

\* Constructor arguments (object_type, instance_id, read_values, priority,
\* write_type) of the descriptors read; read_values may be omitted.
ReadArguments ==
    {<<t, id, rv, 0, 0>> :
        t \in {ANALOG_VALUE, DEVICE},
        id \in InstanceIds \ {127},
        rv \in {<<>>, <<PRESENT_VALUE>>, <<OBJECT_NAME, DESCRIPTION>>}}

\* Constructor arguments of the descriptors written.
WriteArguments ==
    {<<t, id, <<>>, priority, write_type>> :
        t \in {ANALOG_VALUE, BINARY_VALUE, MULTI_STATE_VALUE},
        id \in {127, Pow2(TAG_OBJECT_TYPE_SHIFT) + 127},
        priority \in {0, 8, 16},
        write_type \in {0, WriteType_UnsignedInt, WriteType_Real, WriteType_Enumerated}}

\* The values written: None, 1, 300, 20.5 and 21.5.
WriteValues == {NoneValue, IntValue(1), IntValue(300), FloatValue(41), FloatValue(43)}

\* DeviceProperty(*a)
Construct(a) == DeviceProperty(a[1], a[2], a[3], a[4], a[5])

\* The lists of at most n descriptors' arguments.
RECURSIVE ArgumentLists(_)
ArgumentLists(n) ==
    IF n = 0 THEN {<<>>}
    ELSE ArgumentLists(n - 1)
         \cup {Append(l, a) : l \in {x \in ArgumentLists(n - 1) : Len(x) = n - 1},
                               a \in ReadArguments}

\* _read_property_multiple(device_properties), called once.
EncodeRead ==
    /\ encoded = NoEncoding
    /\ \E args \in ArgumentLists(MaxDescriptors) :
          encoded' = [op |-> "_read_property_multiple", args |-> args,
                      value |-> NoneValue,
                      result |-> Bytes(_read_property_multiple(
                                    [k \in 1..Len(args) |-> Construct(args[k])]))]
    /\ UNCHANGED <<reply, trailing, decoded, self_data, self_i, operation>>
    /\ UNCHANGED <<client_vars, facade_vars>>

\* _write_property(device_property, value), called once.
EncodeWrite ==
    /\ encoded = NoEncoding
    /\ \E a \in WriteArguments, value \in WriteValues :
          encoded' = [op |-> "_write_property", args |-> <<a>>, value |-> value,
                      result |-> _write_property(Construct(a), value)]
    /\ UNCHANGED <<reply, trailing, decoded, self_data, self_i, operation>>
    /\ UNCHANGED <<client_vars, facade_vars>>

EncoderNext ==
    \/ EncodeRead
    \/ EncodeWrite

(***************************************************************************)
(* The encoders' bytes under the decoder: a Tag, an object identifier or a *)
(* write access spec is packed once, a BACnetDecoder is built on the bytes *)
(* and the decoder's methods are run on it.                                *)
(***************************************************************************)

\* Instance numbers of the round trip: both ends of the 22 bits, the catalog's
\* 127 and the two numbers around the middle bit.
RoundTripIds ==
    {0, 127, Pow2(TAG_OBJECT_TYPE_SHIFT - 1) - 1, Pow2(TAG_OBJECT_TYPE_SHIFT - 1),
     Pow2(TAG_OBJECT_TYPE_SHIFT) - 1}

\* The values of the round trip: None, both ends of a byte and the numbers
\* around its sign bit, the first value pack("!BB") refuses, and 20.5.
RoundTripValues ==
    {NoneValue, IntValue(0), IntValue(1), IntValue(127), IntValue(128), IntValue(255),
     IntValue(256), FloatValue(41)}

\* Where the primitive starts in a write access spec: after the five bytes of
\* the object identifier, the two of the property identifier and the opening
\* tag.
PrimitiveOffset == Len(<<CtxTag(0, 4), 0, 0, 0, 0, CtxTag(1, 1), PRESENT_VALUE, CtxTag(3, TAG_OPEN)>>)

\* Tag(number, is_context, length_type).pack(), called once.
PackTag ==
    /\ encoded = NoEncoding
    /\ \E number \in 0..15, is_context \in BOOLEAN, length_type \in 0..7 :
          encoded' = [op |-> "Tag.pack", args |-> <<number, is_context, length_type>>,
                      value |-> NoneValue,
                      result |-> Bytes(<<TagInt(number, is_context, length_type)>>)]
    /\ UNCHANGED <<reply, trailing, decoded, self_data, self_i, operation>>
    /\ UNCHANGED <<client_vars, facade_vars>>

\* DeviceProperty(object_type, instance_id).apdu_object_identifier(), called once.
PackObjectIdentifier ==
    /\ encoded = NoEncoding
    /\ \E object_type \in ObjectType, instance_id \in RoundTripIds :
          encoded' = [op |-> "apdu_object_identifier",
                      args |-> <<object_type, instance_id>>,
                      value |-> NoneValue,
                      result |-> Bytes(apdu_object_identifier(
                                    DeviceProperty(object_type, instance_id, <<>>, 0, 0)))]
    /\ UNCHANGED <<reply, trailing, decoded, self_data, self_i, operation>>
    /\ UNCHANGED <<client_vars, facade_vars>>

\* DeviceProperty(object_type, 127, priority=priority).write_access_spec(value),
\* called once.
PackWriteAccessSpec ==
    /\ encoded = NoEncoding
    /\ \E object_type \in {ANALOG_OUTPUT, ANALOG_VALUE, BINARY_VALUE, MULTI_STATE_VALUE},
          priority \in {0, 16}, value \in RoundTripValues \ {FloatValue(41)} :
          encoded' = [op |-> "write_access_spec",
                      args |-> <<object_type, 127, priority>>,
                      value |-> value,
                      result |-> write_access_spec(
                                    DeviceProperty(object_type, 127, <<>>, priority, 0),
                                    value)]
    /\ UNCHANGED <<reply, trailing, decoded, self_data, self_i, operation>>
    /\ UNCHANGED <<client_vars, facade_vars>>

\* BACnetDecoder(data, offset) on the bytes packed, alone or followed by one
\* more byte of a buffer; a write access spec is entered at its start or at its
\* primitive.
DecoderOnPacked ==
    /\ encoded.op # "none"
    /\ encoded.result.ok
    /\ operation.op = "none"
    /\ \E following \in {<<>>, <<0>>, <<79>>, <<255>>},
          offset \in {0} \cup (IF encoded.op = "write_access_spec"
                               THEN {PrimitiveOffset} ELSE {}) :
          /\ self_data' = encoded.result.bytes \o following
          /\ self_i' = offset
          /\ operation' = [op |-> "BACnetDecoder", args |-> <<offset>>, before |-> offset,
                           result |-> Ok(offset, <<>>)]
    /\ UNCHANGED <<reply, trailing, decoded, encoded, client_vars, facade_vars>>

\* self.i when parse_object_identifier raises: where read_tag left it when the
\* tag cannot be read, after the tag when the tag is refused or its content is
\* cut short, after the content when unpack or ObjectType() refuses it.
CursorAtIdentifierRaise(data, i) ==
    LET t == read_tag(data, i)
    IN  IF ~t.ok THEN CursorAtTagRaise(data, i)
        ELSE IF t.v.class # 1 \/ t.v.number # 0 \/ ~read_bytes(data, t.i, t.v.lvt).ok
        THEN t.i
        ELSE t.i + t.v.lvt

\* self.parse_object_identifier()
ParseObjectIdentifier ==
    /\ operation.op # "none"
    /\ Ran("parse_object_identifier", <<>>, parse_object_identifier(self_data, self_i),
           CursorAtIdentifierRaise(self_data, self_i))
    /\ UNCHANGED <<self_data, reply, trailing, decoded, encoded, client_vars, facade_vars>>

\* self.i when read_application_tag and parse_value_element raise.
CursorAtValueRaise(data, i) ==
    LET t == read_tag(data, i)
    IN  IF ~t.ok THEN CursorAtTagRaise(data, i)
        ELSE IF t.v.class # 0 THEN t.i
        ELSE CursorAtRaise(data, t.i, t.v.number, t.v.lvt)

\* tag_number, tag_length = self.read_application_tag()
\* value = self.parse_value_element(tag_number, tag_length)
ReadApplicationValue ==
    /\ operation.op # "none"
    /\ Ran("read_application_tag; parse_value_element", <<>>,
           ValueAfterTag(self_data, read_application_tag(self_data, self_i)),
           CursorAtValueRaise(self_data, self_i))
    /\ UNCHANGED <<self_data, reply, trailing, decoded, encoded, client_vars, facade_vars>>

RoundTripNext ==
    \/ PackTag
    \/ PackObjectIdentifier
    \/ PackWriteAccessSpec
    \/ DecoderOnPacked
    \/ ReadTag
    \/ ParseObjectIdentifier
    \/ ReadApplicationValue

(***************************************************************************)
(* The loops of the decoder, one iteration at a time: the while loop of    *)
(* _parse_read_property_multiple_response over objects, the loop of        *)
(* parse_list_of_results over properties and the loop of                   *)
(* parse_priority_array over elements, on a decoder built on a reply.      *)
(***************************************************************************)

\* What a loop does after an iteration: go round again with the item read, or
\* leave through its break.
Went(item) == [break |-> FALSE, item |-> item]
Broke == [break |-> TRUE, item |-> <<>>]

\* propertyValue wrappers: opening tag 4, the primitives, closing tag 4.
Wrapped(primitives) ==
    <<CtxTag(TAG_NO_PROPERTY_VALUE, TAG_OPEN)>> \o Join(primitives)
    \o <<CtxTag(TAG_NO_PROPERTY_VALUE, TAG_CLOSE)>>

\* The primitives a device puts in one wrapper: an Unsigned 5; the Booleans
\* true and false; a Real 21.5 after an Enumerated 1; a character string of
\* length 0 before two Nulls; and none.
PrimitiveLists ==
    {<<<<AppTag(2, 1), 5>>>>,
     <<<<AppTag(1, 1)>>, <<AppTag(1, 0)>>>>,
     <<<<AppTag(9, 1), 1>>, <<AppTag(4, 4), 65, 172, 0, 0>>>>,
     <<<<AppTag(7, 0)>>, <<AppTag(0, 0)>>, <<AppTag(0, 0)>>>>,
     <<>>}

\* One object of a reply: (ANALOG_VALUE, 134) with one property in a wrapper.
ObjectWith(property_id, primitives) ==
    apdu_object_identifier(DeviceProperty(ANALOG_VALUE, 134, <<>>, 0, 0))
    \o <<CtxTag(1, TAG_OPEN), CtxTag(2, 1), property_id>> \o Wrapped(primitives)
    \o <<CtxTag(1, TAG_CLOSE)>>

\* The payloads of the replies decoded: one object with each wrapper under
\* PRESENT_VALUE and under PRIORITY_ARRAY, an object without properties before
\* an object with an access error, and an object whose list is cut short.
LoopPayloads ==
    {ObjectWith(property_id, primitives) :
        property_id \in {PRESENT_VALUE, PRIORITY_ARRAY}, primitives \in PrimitiveLists}
    \cup {apdu_object_identifier(DeviceProperty(BINARY_VALUE, 5, <<>>, 0, 0))
          \o <<CtxTag(1, TAG_OPEN), CtxTag(1, TAG_CLOSE)>>
          \o apdu_object_identifier(DeviceProperty(ANALOG_VALUE, 134, <<>>, 0, 0))
          \o <<CtxTag(1, TAG_OPEN), CtxTag(2, 1), PRESENT_VALUE,
               CtxTag(TAG_NO_PROPERTY_ACCESS_ERROR, TAG_OPEN),
               AppTag(9, 1), 2, AppTag(9, 1), 32,
               CtxTag(TAG_NO_PROPERTY_ACCESS_ERROR, TAG_CLOSE), CtxTag(1, TAG_CLOSE)>>,
          apdu_object_identifier(DeviceProperty(ANALOG_VALUE, 134, <<>>, 0, 0))
          \o <<CtxTag(1, TAG_OPEN), CtxTag(2, 1), PRIORITY_ARRAY,
               CtxTag(TAG_NO_PROPERTY_VALUE, TAG_OPEN), AppTag(0, 0)>>}

\* decoder = BACnetDecoder(apdu, 3) on the APDU of a reply.
DecoderOnReply ==
    /\ operation.op = "none"
    /\ \E payload \in LoopPayloads :
          self_data' = ComplexAck(INVOKE_ID, READ_PROPERTY_MULTIPLE, payload)
    /\ self_i' = 3
    /\ operation' = [op |-> "BACnetDecoder", args |-> <<3>>, before |-> 3,
                     result |-> Ok(3, <<>>)]
    /\ UNCHANGED <<reply, trailing, decoded, encoded, client_vars, facade_vars>>

\* A decoder that was built and that no raise has ended.
Live == operation.op # "none" /\ operation.result.ok

\* The decoder after a part of the parse that started at self.i. A raise leaves
\* _parse_read_property_multiple_response and its decoder with it: no method
\* runs on the decoder afterwards and self_i stays where the part started.
Parsed(method, args, r) ==
    /\ operation' = [op |-> method, args |-> args, before |-> self_i, result |-> r]
    /\ self_i' = IF r.ok THEN r.i ELSE self_i

\* One iteration of the while loop of _parse_read_property_multiple_response.
ObjectIterationResults(object_id, properties) ==
    IF ~properties.ok THEN properties
    ELSE Ok(properties.i, Went(<<object_id, properties.v>>))

ObjectIterationOf(apdu, object_id) ==
    IF ~object_id.ok THEN object_id
    ELSE ObjectIterationResults(object_id.v, parse_list_of_results(apdu, object_id.i))

ObjectIteration ==
    /\ Live
    /\ ~eof(self_data, self_i)
    /\ Parsed("object iteration", <<>>,
              ObjectIterationOf(self_data, parse_object_identifier(self_data, self_i)))
    /\ UNCHANGED <<self_data, reply, trailing, decoded, encoded, client_vars, facade_vars>>

\* One iteration of the while loop of parse_list_of_results, t being the
\* context tag it reads first.
PropertyIterationValue(prop_id, value) ==
    IF ~value.ok THEN value ELSE Ok(value.i, Went(<<prop_id, value.v>>))

PropertyIterationProperty(data, prop_id) ==
    IF ~prop_id.ok THEN prop_id
    ELSE IF prop_id.v \notin ReadValue THEN Raise("ValueError")
    ELSE PropertyIterationValue(prop_id.v, read_value(data, prop_id.i, prop_id.v))

PropertyIterationOf(data, opening_tag_number, t) ==
    IF ~t.ok THEN t
    ELSE IF t.v.number = opening_tag_number /\ t.v.lvt = TAG_CLOSE THEN Ok(t.i, Broke)
    ELSE IF t.v.number # 2 THEN Raise("DecodingError")
    ELSE PropertyIterationProperty(data, read_byte(data, t.i))

PropertyIteration ==
    /\ Live
    /\ \E opening_tag_number \in {1, TAG_NO_PROPERTY_VALUE} :
          Parsed("property iteration", <<opening_tag_number>>,
                 PropertyIterationOf(self_data, opening_tag_number,
                                     read_context_tag(self_data, self_i)))
    /\ UNCHANGED <<self_data, reply, trailing, decoded, encoded, client_vars, facade_vars>>

\* An element loop that peeks at its element instead of reading it.
ElementIterationPeeking(data, i, opening_tag_number, t) ==
    IF ~t.ok THEN t
    ELSE IF t.v.class = 1 /\ t.v.number = opening_tag_number /\ t.v.lvt = TAG_CLOSE
    THEN Ok(i, Broke)
    ELSE Ok(i, Went(PyNone))

\* One iteration of the while loop of parse_priority_array, t being the tag it
\* peeks at first.
ElementIterationValue(element) ==
    IF ~element.ok THEN element ELSE Ok(element.i, Went(element.v))

ElementIterationOf(data, i, opening_tag_number, t) ==
    IF ~t.ok THEN t
    ELSE IF t.v.class = 1 /\ t.v.number = opening_tag_number /\ t.v.lvt = TAG_CLOSE
    THEN Ok(i, Broke)
    ELSE ElementIterationValue(ValueAfterTag(data, read_application_tag(data, i)))

ElementIteration ==
    /\ Live
    /\ Parsed("element iteration", <<TAG_NO_PROPERTY_VALUE>>,
              ElementIterationOf(self_data, self_i, TAG_NO_PROPERTY_VALUE,
                                 peek_tag(self_data, self_i)))
    /\ UNCHANGED <<self_data, reply, trailing, decoded, encoded, client_vars, facade_vars>>

\* self.read_value(property_id=prop_id)
ReadPropertyValue ==
    /\ Live
    /\ \E property_id \in {PRESENT_VALUE, PRIORITY_ARRAY} :
          Parsed("read_value", <<property_id>>,
                 read_value(self_data, self_i, property_id))
    /\ UNCHANGED <<self_data, reply, trailing, decoded, encoded, client_vars, facade_vars>>

\* self.read_context_tag(): the opening tag of a list or of a wrapper.
ReadContextTag ==
    /\ Live
    /\ Parsed("read_context_tag", <<>>, read_context_tag(self_data, self_i))
    /\ UNCHANGED <<self_data, reply, trailing, decoded, encoded, client_vars, facade_vars>>

\* self.read_byte() on a decoder that no raise has ended.
ReadNextByte ==
    /\ Live
    /\ ReadByte

LoopsNext ==
    \/ DecoderOnReply
    \/ ObjectIteration
    \/ PropertyIteration
    \/ ElementIteration
    \/ ReadPropertyValue
    \/ ReadContextTag
    \/ ReadNextByte

(***************************************************************************)
(* read_multiple against a peer that streams segments: a first segment,    *)
(* then segments with MORE_SEGMENTS set for as long as it likes, then      *)
(* perhaps a last one.                                                     *)
(***************************************************************************)

\* The most datagrams the streaming peer sends in one call.
MaxStream == 18

\* The datagrams the peer may send as its next, having sent n.
StreamAfter(n) ==
    IF n = 0
    THEN {PeerFrame(BVLC_TYPE, BVLC_FUNCTION_UNICAST,
                    FirstSegment(SEGMENTED_REQUEST + MORE_SEGMENTS, INVOKE_ID, 0, 16,
                                 READ_PROPERTY_MULTIPLE, PayloadHead))}
    ELSE {PeerFrame(BVLC_TYPE, BVLC_FUNCTION_UNICAST,
                    NextSegment(SEGMENTED_REQUEST + MORE_SEGMENTS, INVOKE_ID, n % 256, 16,
                                <<>>)),
          PeerFrame(BVLC_TYPE, BVLC_FUNCTION_UNICAST,
                    NextSegment(SEGMENTED_REQUEST, INVOKE_ID, n % 256, 16, PayloadTail))}

\* datagram_received of _BACnetSegmentedProtocol with the peer's next segment.
PeerStreams ==
    /\ op = "read"
    /\ transport = "open"
    /\ peer_count < MaxStream
    /\ Len(queue) < MaxQueue
    /\ peer_count' = peer_count + 1
    /\ \E data \in StreamAfter(peer_count) : queue' = Append(queue, data)
    /\ UNCHANGED <<op, pc, sent, exception, done, unhandled, invoke_id, service_choice,
                   data_parts, outcome, received, decoder_input, error_seen, timed_out,
                   response, transport>>
    /\ UNCHANGED <<facade_vars, codec_vars>>

StreamNext ==
    \/ StartRead
    \/ PeerStreams
    \/ ReceiveFirst
    \/ ReceiveSegment
    \/ ReadTimeout

\* ------------------------------------------------------ specifications

Init == ClientInit /\ FacadeInit /\ DecoderInit

Next ==
    \/ StartRead
    \/ ReceiveFirst
    \/ ReceiveSegment
    \/ ReadTimeout
    \/ ReadCancel
    \/ StartWrite
    \/ WaitReturns
    \/ WriteTimeout
    \/ WriteCancel
    \/ DatagramReceived
    \/ ErrorReceived
    \/ ConnectionLost

\* One call on a BACnetClient against a peer.
Spec == Init /\ [][Next]_vars

\* Tasks calling one SiemensBACnet facade.
SpecFacade == Init /\ [][FacadeNext]_vars

SpecDecoder == Init /\ [][DecoderNext]_vars

\* The decoder object under the operations of its callers.
SpecCursor == Init /\ [][CursorNext]_vars

\* The request builders under every list of descriptors and every value.
SpecEncoder == Init /\ [][EncoderNext]_vars

\* The encoders' bytes under the decoder's methods.
SpecRoundTrip == Init /\ [][RoundTripNext]_vars

\* The decoder's loops, iteration by iteration.
SpecLoops == Init /\ [][LoopsNext]_vars

\* One read_multiple against a peer that streams segments.
SpecStream == Init /\ [][StreamNext]_vars

\* ----------------------------------------------------------- properties

\* The wire layout of the peer's datagrams, read off without the client's code.
ApduOf(d) == From(d, BVLC_LENGTH + Len(NPDU))
TypeOf(d) == At(ApduOf(d), 0) \div 16
MoreFollows(d) == HasBit(At(ApduOf(d), 0), MORE_SEGMENTS)
MarkedSegmented(d) == HasBit(At(ApduOf(d), 0), SEGMENTED_REQUEST)
CarriesInvokeId(d) == Len(ApduOf(d)) >= 2
InvokeIdOf(d) == At(ApduOf(d), 1)
BvlcValid(d) ==
    Len(d) >= BVLC_LENGTH /\ d[1] = BVLC_TYPE /\ d[2] = BVLC_FUNCTION_UNICAST

\* The j-th segment of a reply has a 5-byte header when j = 1, a 4-byte one after.
SegmentHeaderLen(j) == IF j = 1 THEN 5 ELSE 4
IsSegment(d, j) == Len(ApduOf(d)) >= SegmentHeaderLen(j) /\ TypeOf(d) = APDU_COMPLEX_ACK
PayloadsOf(ds) == [j \in 1..Len(ds) |-> From(ApduOf(ds[j]), SegmentHeaderLen(j))]
AckFor(d) ==
    PeerFrame(BVLC_TYPE, BVLC_FUNCTION_UNICAST,
              <<APDU_SEGMENT_ACK * 16, InvokeIdOf(d), At(ApduOf(d), 2), At(ApduOf(d), 3)>>)
AcksFor(ds) == [j \in 1..Len(ds) |-> AckFor(ds[j])]

\* ds is a whole segmented reply: segments of one invoke id, all but the last with
\* MORE_SEGMENTS, a lone segment marked by SEGMENTED_REQUEST.
SegmentedReply(ds) ==
    /\ Len(ds) >= 1
    /\ \A j \in 1..Len(ds) :
          /\ IsSegment(ds[j], j)
          /\ InvokeIdOf(ds[j]) = InvokeIdOf(ds[1])
          /\ MoreFollows(ds[j]) <=> j < Len(ds)
    /\ Len(ds) = 1 => MarkedSegmented(ds[1])

\* What read_multiple has sent after its request.
Acks == IF sent = <<>> THEN <<>> ELSE Tail(sent)

\* The one datagram that carries the payloads of the segments ds as a whole.
WholeReply(ds) ==
    PeerFrame(BVLC_TYPE, BVLC_FUNCTION_UNICAST,
              ComplexAck(InvokeIdOf(ds[1]), At(ApduOf(ds[1]), 4), Join(PayloadsOf(ds))))

\* C1: for a segmented reply of k >= 1 segments read_multiple sends exactly k
\* SegmentAcks, the j-th after the j-th segment and before the next is taken, each
\* with the invoke id, sequence number and window size of the segment just
\* received, and the decoder gets the payloads joined in arrival order. (A call
\* that found a transport error on its first reply raises before any of this.)
C1_SegmentAcks ==
    op = "read" =>
        /\ pc = "await_segment" => Acks = AcksFor(received)
        /\ (pc = "done" /\ SegmentedReply(received) /\ outcome.err # "ConnectionError")
              => /\ Acks = AcksFor(received)
                 /\ Len(decoder_input) = 1
                 /\ From(ApduOf(decoder_input[1]), 3) = Join(PayloadsOf(received))

C1_ThreeSegmentsRead ==
    /\ op = "read" /\ pc = "done"
    /\ SegmentedReply(received) /\ Len(received) = 3
    /\ outcome.kind = "return"

\* C2: what the segmented path hands to the decoder is byte for byte the
\* single datagram carrying the whole payload under the first segment's invoke id
\* and service choice, and the call ends as the single path ends on that datagram.
C2_ReassembledIsWhole ==
    (/\ op = "read" /\ pc = "done" /\ decoder_input # <<>>
     /\ (MoreFollows(received[1]) \/ MarkedSegmented(received[1])))
        => /\ decoder_input = <<WholeReply(received)>>
           /\ FirstReply(WholeReply(received), "None")
                 = Step("decode", "none", <<>>, 0, 0, <<>>, WholeReply(received))
           /\ outcome = DecodeOutcome(WholeReply(received))

C2_TwoSegmentsDecoded ==
    /\ op = "read" /\ pc = "done" /\ decoder_input # <<>>
    /\ Len(received) = 2 /\ MoreFollows(received[1])
    /\ outcome.kind = "return"
    /\ outcome = DecodeOutcome(PeerFrame(BVLC_TYPE, BVLC_FUNCTION_UNICAST,
                                         ComplexAck(1, READ_PROPERTY_MULTIPLE, Payload)))

\* C3: a first reply that is a COMPLEX_ACK with neither MORE_SEGMENTS nor
\* SEGMENTED_REQUEST ends the call on the single path: no SegmentAck is sent, no
\* further datagram is taken, and the decoder gets exactly that datagram. (No
\* transport error was reported to the protocol.)
C3_SinglePath ==
    (/\ op = "read" /\ received # <<>> /\ ~error_seen
     /\ Len(ApduOf(received[1])) >= 1 /\ TypeOf(received[1]) = APDU_COMPLEX_ACK
     /\ ~MoreFollows(received[1]) /\ ~MarkedSegmented(received[1]))
        => /\ pc = "done"
           /\ Len(received) = 1
           /\ Len(sent) = 1
           /\ decoder_input = <<received[1]>>

C3_SingleReplyRead ==
    /\ op = "read" /\ pc = "done" /\ ~error_seen
    /\ Len(received) = 1 /\ Len(ApduOf(received[1])) >= 1
    /\ TypeOf(received[1]) = APDU_COMPLEX_ACK
    /\ ~MoreFollows(received[1]) /\ ~MarkedSegmented(received[1])
    /\ outcome.kind = "return" /\ queue # <<>>

\* Exceptions that end a call for a reason other than a reply's header fields:
\* no reply in time, cancellation, a transport error, a datagram cut short.
OtherCauses == {"TimeoutError", "CancelledError", "ConnectionError", "IndexError",
                "struct.error"}

ForeignInvokeId(d) == CarriesInvokeId(d) /\ InvokeIdOf(d) # INVOKE_ID

\* C4: neither read_multiple, whether its reply came whole or in segments, nor
\* write returns a result when a datagram it took carries an invoke id other than
\* 1; a call that ends on such a reply ends with DecodingError.
C4_ForeignInvokeIdRejected ==
    /\ outcome.kind = "return"
          => \A j \in 1..Len(received) :
                CarriesInvokeId(received[j]) /\ InvokeIdOf(received[j]) = INVOKE_ID
    /\ (/\ pc = "done"
        /\ \E j \in 1..Len(received) : ForeignInvokeId(received[j])
        /\ outcome.err \notin OtherCauses)
          => outcome = Raised("DecodingError")

C4_ForeignSegmentsRejected ==
    /\ op = "read" /\ pc = "done" /\ decoder_input # <<>>
    /\ Len(received) = 2
    /\ \A j \in 1..2 : IsSegment(received[j], j) /\ InvokeIdOf(received[j]) = 2
    /\ outcome = Raised("DecodingError")

\* C5: no call returns a result from a datagram whose BVLC type is not 0x81 or
\* whose BVLC function is not 0x0A.
C5_BvlcValidatedOnReceive ==
    outcome.kind = "return" => \A j \in 1..Len(received) : BvlcValid(received[j])

\* The reply write accepts: valid BVLC, SIMPLE_ACK, invoke id 1, WriteProperty.
ValidWriteAck(d) ==
    /\ BvlcValid(d)
    /\ Len(ApduOf(d)) >= 3
    /\ TypeOf(d) = APDU_SIMPLE_ACK
    /\ InvokeIdOf(d) = INVOKE_ID
    /\ At(ApduOf(d), 2) = WRITE_PROPERTY

\* C6: write returns exactly when the reply it took has a valid BVLC header and
\* is a SIMPLE_ACK with invoke id 1 and service choice WriteProperty; any other
\* reply with a full header ends the call with DecodingError.
C6_WriteAcceptsOnlyItsAck ==
    op = "write" =>
        /\ outcome.kind = "return" => received # <<>>
        /\ (pc = "done" /\ received # <<>>)
              => /\ outcome.kind = "return" <=> ValidWriteAck(received[1])
                 /\ (~ValidWriteAck(received[1]) /\ Len(ApduOf(received[1])) >= 3)
                       => outcome = Raised("DecodingError")

C6_WriteAcknowledged ==
    /\ op = "write" /\ pc = "done"
    /\ received # <<>> /\ ValidWriteAck(received[1])
    /\ outcome.kind = "return"

C6_WriteRefused ==
    /\ op = "write" /\ pc = "done"
    /\ received # <<>> /\ BvlcValid(received[1]) /\ Len(ApduOf(received[1])) >= 3
    /\ TypeOf(received[1]) = APDU_SIMPLE_ACK /\ InvokeIdOf(received[1]) = INVOKE_ID
    /\ At(ApduOf(received[1]), 2) = READ_PROPERTY_MULTIPLE
    /\ outcome = Raised("DecodingError")

\* The confirmed requests among the datagrams sent.
RequestsSent ==
    Cardinality({j \in 1..Len(sent) :
                    Len(ApduOf(sent[j])) >= 1 /\ TypeOf(sent[j]) = APDU_CONFIRMED_REQ})

\* C7: a call never transmits its confirmed request twice, and one that created
\* its endpoint has transmitted it exactly once, as the first datagram; after a
\* timeout, a decoding failure or a transport error the call has ended and the
\* request has still been sent once.
C7_RequestSentOnce ==
    /\ RequestsSent <= 1
    /\ transport # "none" => RequestsSent = 1 /\ TypeOf(sent[1]) = APDU_CONFIRMED_REQ
    /\ (timed_out \/ outcome.err \in {"DecodingError", "ConnectionError"})
          => pc = "done" /\ RequestsSent = 1

C7_TimeoutBetweenSegments ==
    /\ op = "read" /\ pc = "done" /\ timed_out
    /\ received # <<>> /\ Len(sent) = 1 + Len(received)
    /\ transport = "closed"

\* C8: a call that ends on a timeout ends with an error of the ConnectionError
\* kind.
C8_TimeoutIsConnectionError ==
    timed_out => outcome = Raised("ConnectionError")

\* C9: once error_received was called during a call, the call does not return a
\* result.
C9_NoResultAfterTransportError ==
    error_seen => outcome.kind # "return"

\* C10: however a call ends once its endpoint exists, the transport has been
\* closed, and nothing is sent on a transport that has been closed.
C10_TransportClosed ==
    /\ [](pc = "done" /\ sent # <<>> => transport \in {"closing", "closed"})
    /\ [][(transport \in {"closing", "closed"}) => (sent' = sent)]_vars

C10_CancelledAfterSegment ==
    /\ op = "read" /\ pc = "done"
    /\ outcome = Raised("CancelledError")
    /\ Len(sent) = 2 /\ transport = "closed"

\* ------------------------------------------------------ facade properties

Tasks == 1..MaxTasks

\* The tasks whose confirmed request is sent and not yet completed.
Outstanding == {t \in Tasks : task[t].pc \in {"reading", "writing"}}

\* The request a task has outstanding.
OutstandingRequest(t) == task[t].requests[Len(task[t].requests)]

\* C11: confirmed requests to the device are serialized: under every
\* interleaving of update() and set_value() calls on one facade there are never
\* two confirmed requests with invoke id 1 outstanding at the same time.
C11_RequestsSerialized ==
    \A t, u \in Outstanding :
        (/\ OutstandingRequest(t).invoke_id = INVOKE_ID
         /\ OutstandingRequest(u).invoke_id = INVOKE_ID) => t = u

\* A DeviceState is whole: it has every descriptor update() asks for, and every
\* value was read by one and the same call.
Whole(dict) ==
    /\ DOMAIN dict = 1..(CatalogSize + 1)
    /\ \A d, e \in DOMAIN dict : dict[d] = dict[e]

\* The DeviceState one call's update() produces.
StateReadBy(number) == [d \in 1..(CatalogSize + 1) |-> number]

\* C12: a reader that runs at any suspension point of an update() in progress
\* observes the complete DeviceState of one update, never one that holds the
\* result of only some chunks; the cache is whole at every suspension point.
C12_ReaderSeesWholeState ==
    /\ ~_state.none => Whole(_state.dict)
    /\ \A t \in Tasks : task[t].observed # <<>> => Whole(task[t].observed[1])

\* A reader ran while an update had merged some of its chunks and not all, and
\* saw the state of an earlier call.
C12_ReadDuringUpdate ==
    \E t \in Tasks :
        /\ task[t].call = "get_value"
        /\ task[t].outcome = "return"
        /\ \E i \in task[t].during : i > 0
        /\ Whole(task[t].observed[1])
        /\ task[t].observed[1][1] < task[t].number

\* The task completes an update() successfully in this step.
Completes(t) ==
    /\ task[t].pc = "reading"
    /\ task'[t].pc = "done"
    /\ task'[t].outcome = "return"

\* The task's update() fails in this step.
Fails(t) ==
    /\ task[t].pc = "reading"
    /\ task'[t].pc = "done"
    /\ task'[t].outcome \in CallErrors

\* C13: if a ReadPropertyMultiple request of an update() fails, the cached
\* DeviceState is what it was before; the chunks that did succeed are discarded.
\* No step of an update() changes the cache but its successful completion, which
\* replaces it by what that update read.
C13_FailedUpdateKeepsCache ==
    [][/\ \A t \in Tasks : Fails(t) => _state' = _state
       /\ _state' # _state =>
             \E t \in Tasks : Completes(t) /\ _state' = SomeState(StateReadBy(task[t].number))]_vars

\* An update() failed after some of its chunks were read, and the cache still
\* holds the state of an earlier call.
C13_FailedAfterChunks ==
    \E t \in Tasks :
        /\ task[t].call = "update"
        /\ task[t].outcome \in CallErrors
        /\ Len(task[t].requests) > 1
        /\ ~_state.none
        /\ _state.dict = StateReadBy(_state.dict[1])
        /\ _state.dict[1] < task[t].number

\* The task runs _get_value in this step.
Looks(t) == task'[t] # task[t] /\ task'[t].call = "get_value"

\* The write of the task's _set_value fails in this step.
WriteFails(t) ==
    /\ task[t].pc = "writing"
    /\ task'[t].pc = "done"

ServicesOf(t) == [k \in 1..Len(task[t].requests) |-> task[t].requests[k].service]

\* The chunks of the ReadPropertyMultiple requests a call has sent, in order.
ReadChunksFrom(requests, k) ==
    [j \in 1..(Len(requests) - k + 1) |-> requests[j + k - 1].chunk]

ReadChunks(t) ==
    ReadChunksFrom(task[t].requests, IF task[t].call = "set_value" THEN 2 ELSE 1)

\* C15: set_value sends the WriteProperty request first and starts update() only
\* after the write is acknowledged; if the write fails, no ReadPropertyMultiple
\* request is sent and the cache is unchanged; if the write and the update()
\* succeed, the cache when set_value returns is the state read after the write.
C15_WriteThenUpdate ==
    /\ [](\A t \in Tasks :
            task[t].call = "set_value" =>
                /\ Len(task[t].requests) >= 1
                /\ ServicesOf(t)[1] = WRITE_PROPERTY
                /\ \A k \in 2..Len(task[t].requests) :
                      ServicesOf(t)[k] = READ_PROPERTY_MULTIPLE
                /\ Len(task[t].requests) > 1 => task[t].acknowledged
                /\ task[t].pc = "writing" => Len(task[t].requests) = 1
                /\ task[t].outcome = "return" => task[t].acknowledged)
    /\ [][\A t \in Tasks :
            /\ WriteFails(t) => /\ _state' = _state
                                /\ task'[t].requests = task[t].requests
                                /\ Len(task'[t].requests) = 1
                                /\ task'[t].outcome \in CallErrors
            /\ (task[t].call = "set_value" /\ Completes(t)) =>
                  _state' = SomeState(StateReadBy(task[t].number))]_vars

\* A set_value returned: its write was acknowledged, its reads followed, and the
\* cache holds what this call read.
C15_WrittenAndRefreshed ==
    \E t \in Tasks :
        /\ task[t].call = "set_value"
        /\ task[t].outcome = "return"
        /\ task[t].acknowledged
        /\ Len(task[t].requests) > 2
        /\ _state = SomeState(StateReadBy(task[t].number))

\* The calls that run update().
Updating == {t \in Tasks : task[t].call \in {"update", "set_value"}}

\* The updates that completed successfully.
Updated == {t \in Updating : task[t].outcome = "return"}

\* The catalog, DEVICE_PROPERTIES, and the descriptor of the DEVICE object.
Catalog == SubSeq(device_properties, 1, CatalogSize)
DeviceDescriptor == device_properties[CatalogSize + 1]

Front(s) == SubSeq(s, 1, Len(s) - 1)

\* C16: update() issues its ReadPropertyMultiple requests one after another,
\* the next only after the previous completed: the catalog descriptors followed
\* by the DEVICE object's descriptor are sent in consecutive requests of at most
\* 20 descriptors each, every descriptor in exactly one request; the DEVICE
\* descriptor is the last of the last request, which it shares with the last
\* catalog descriptors whenever the catalog is not a multiple of 20 long.
C16_ChunkedRequests ==
    \A t \in Updating :
        /\ \A k \in 1..Len(ReadChunks(t)) :
              Len(ReadChunks(t)[k]) \in 1..chunk_size
        /\ task[t].pc = "reading" =>
              /\ Len(ReadChunks(t)) = (task[t].i \div chunk_size) + 1
              /\ DOMAIN task[t].state = 1..task[t].i
              /\ Join(ReadChunks(t)) =
                    SubSeq(device_properties, 1, Len(Join(ReadChunks(t))))
        /\ t \in Updated =>
              /\ Join(ReadChunks(t)) = device_properties
              /\ Len(ReadChunks(t)) = (CatalogSize \div chunk_size) + 1
              /\ ReadChunks(t)[Len(ReadChunks(t))]
                    = SubSeq(device_properties,
                             CatalogSize - (CatalogSize % chunk_size) + 1, CatalogSize + 1)

\* An update() completed with the 67 catalog descriptors and the DEVICE
\* descriptor read in four requests, the last of eight descriptors.
C16_UpdatedInFourRequests ==
    \E t \in Updated :
        /\ task[t].call = "update"
        /\ Len(ReadChunks(t)) = 4
        /\ Len(ReadChunks(t)[4]) = 8
        /\ ReadChunks(t)[4][8] = DeviceDescriptor

\* C16 as stated: the catalog descriptors are sent in requests of at most 20
\* each, every one in exactly one request, plus one trailing request for the
\* DEVICE object alone.
C16_TrailingDeviceRequest ==
    \A t \in Updated :
        /\ \A k \in 1..Len(ReadChunks(t)) : Len(ReadChunks(t)[k]) \in 1..chunk_size
        /\ Join(Front(ReadChunks(t))) = Catalog
        /\ ReadChunks(t)[Len(ReadChunks(t))] = <<DeviceDescriptor>>

\* -------------------------------------------------- client error kinds

\* The errors that are not about the bytes of a reply.
NotOfTheReply == {"TimeoutError", "CancelledError", "ConnectionError"}

\* C17: every malformed reply is reported as DecodingError and as no other
\* error kind: a call that took a reply and failed over its bytes, truncated
\* ones included, failed with DecodingError.
C17_MalformedIsDecodingError ==
    (/\ outcome.kind = "raise"
     /\ received # <<>>
     /\ outcome.err \notin NotOfTheReply) => outcome.err = "DecodingError"

\* ----------------------------------------------------- decoder properties

\* The DeviceState decoded, as its items in insertion order; none if the
\* decoder has not run or has raised.
Items == IF decoded # <<>> /\ decoded[1].ok THEN decoded[1].v ELSE <<>>

\* C18: every PRIORITY_ARRAY value the decoder returns has exactly 16 elements.
C18_PriorityArrayHasSixteen ==
    \A k \in 1..Len(Items) :
        \A j \in 1..Len(Items[k].value) :
            Items[k].value[j][1] = PRIORITY_ARRAY =>
                /\ Items[k].value[j][2].t = "list"
                /\ Len(Items[k].value[j][2].items) = 16

\* The blocks of the reply whose object occurs in no other block.
Alone == {b \in 1..Len(reply) : \A c \in 1..Len(reply) : reply[c].object = reply[b].object => c = b}

\* The value part of every entry decoded for an object.
ValuesOf(object) ==
    {Items[k].value : k \in {j \in 1..Len(Items) : Items[j].key = ObjectId(object.object_type, object.instance_id)}}

\* C19: a property whose wrapper is open-tag 5 decodes, without failure, to an
\* AccessError value that keeps the 4 raw bytes and differs from every
\* successfully read value.
C19_AccessErrorSurfaces ==
    (decoded # <<>> /\ trailing = <<>>) =>
        /\ decoded[1].ok
        /\ \A b \in Alone :
              \A entries \in ValuesOf(reply[b].object) :
                  \A k \in 1..Len(reply[b].results) :
                      (k <= Len(entries) /\ reply[b].results[k].error) =>
                          /\ entries[k][2].t = "AccessError"
                          /\ entries[k][2].raw = reply[b].results[k].body

\* The property ids of an object's results in the order of the wire.
PropertiesOnWire(object) ==
    Join([b \in 1..Len(reply) |->
            IF reply[b].object = object
            THEN [k \in 1..Len(reply[b].results) |-> reply[b].results[k].property]
            ELSE <<>>])

\* The property ids of the entries decoded for an object, in order.
PropertiesDecoded(object) ==
    Join([k \in 1..Len(Items) |->
            IF Items[k].key = ObjectId(object.object_type, object.instance_id)
            THEN [j \in 1..Len(Items[k].value) |-> Items[k].value[j][1]]
            ELSE <<>>])

\* C20: every (object, property) pair of a well-formed reply yields exactly one
\* entry, and the entries of each object are in the order of the wire: none is
\* dropped, duplicated or reordered.
C20_EveryPairOneEntry ==
    (decoded # <<>> /\ trailing = <<>>) =>
        /\ decoded[1].ok
        /\ \A o \in DeviceObjects : PropertiesDecoded(o) = PropertiesOnWire(o)

\* The trailing bytes that are one more complete object block.
WholeBlocks == {<<12, 0, 128, 0, 134, 30, 41, 85, 78, 68, 65, 172, 0, 0, 79, 31>>}

\* C22: a DeviceState is returned only when the bytes after the objects are
\* none or whole object blocks, and bytes left over outside the grammar are
\* rejected with DecodingError.
C22_NoTrailingBytes ==
    decoded # <<>> =>
        /\ decoded[1].ok => trailing \in WholeBlocks \cup {<<>>}
        /\ trailing \notin WholeBlocks \cup {<<>>} =>
              /\ ~decoded[1].ok
              /\ decoded[1].err = "DecodingError"

\* The DeviceState {(ANALOG_VALUE, 134): [(PRESENT_VALUE, 21.5)]}.
StateS2 ==
    <<[key |-> ObjectId(ANALOG_VALUE, 134),
       value |-> <<<<PRESENT_VALUE, PyFloat(PackF(43))>>>>]>>

\* The reply decoded had exactly the given bytes after its 3-byte header.
DecodedPayload(bytes) == reply = <<>> /\ trailing = bytes /\ decoded # <<>>

\* C28: scenario S2 with the Real in full: the payload
\* 0C 00 80 00 86 1E 29 55 4E 44 41 AC 00 00 4F 1F decodes to
\* {(ANALOG_VALUE, 134): [(PRESENT_VALUE, 21.5)]}, one object with one entry.
C28_ScenarioS2 ==
    DecodedPayload(<<12, 0, 128, 0, 134, 30, 41, 85, 78, 68, 65, 172, 0, 0, 79, 31>>) =>
        /\ decoded[1].ok
        /\ decoded[1].v = StateS2

\* The reply of scenario S2 was decoded to one object with one Real.
C28_DecodedS2 ==
    /\ DecodedPayload(<<12, 0, 128, 0, 134, 30, 41, 85, 78, 68, 65, 172, 0, 0, 79, 31>>)
    /\ Len(Items) = 1
    /\ Len(Items[1].value) = 1
    /\ Items[1].value[1][2] = PyFloat(<<65, 172, 0, 0>>)

\* C28 as stated: the payload 0C 00 80 00 86 1E 29 55 4E 44 AC 00 00 4F 1F
\* decodes to {(ANALOG_VALUE, 134): [(PRESENT_VALUE, 21.5)]}.
C28_StatedScenarioS2 ==
    DecodedPayload(<<12, 0, 128, 0, 134, 30, 41, 85, 78, 68, 172, 0, 0, 79, 31>>) =>
        /\ decoded[1].ok
        /\ decoded[1].v = StateS2

(***************************************************************************)
(* Properties of the decoder object.                                       *)
(***************************************************************************)

\* The application tag numbers parse_value_element has a branch for.
KnownTags == {0, 1, 2, 3, 4, 5, 7, 9, 12}

\* The last operation and its arguments.
Did(method) == operation.op = method
TagNumber == operation.args[1]
Length == operation.args[2]

\* C21: for an application tag number outside {0,1,2,3,4,5,7,9,12} with at
\* least lvt bytes left, parse_value_element returns {"tag", "raw"} with raw the
\* next lvt bytes and leaves the cursor lvt further, which is where a known
\* primitive of that length (an unsigned integer) leaves it.
C21_UnknownPrimitivePreserved ==
    (/\ Did("parse_value_element")
     /\ TagNumber \notin KnownTags
     /\ operation.before + Length <= Len(self_data)) =>
        /\ operation.result.ok
        /\ operation.result.v =
              PyUnknown(TagNumber,
                        Slice(self_data, operation.before, operation.before + Length))
        /\ self_i = operation.before + Length
        /\ parse_unsinged_int(self_data, operation.before, Length).i = self_i

\* An octet string of two bytes is kept as tag 6 with its bytes.
C21_OctetStringKept ==
    /\ Did("parse_value_element")
    /\ self_data = <<AppTag(6, 2), 1, 2>>
    /\ operation.before = 1
    /\ operation.args = <<6, 2>>
    /\ operation.result = Ok(3, PyUnknown(6, <<1, 2>>))
    /\ self_i = 3

\* C23: after every operation other than peek_tag the cursor is at or after
\* the place where the operation started, and within the buffer.
C23_CursorOnlyAdvances ==
    operation.op \notin {"none", "BACnetDecoder", "peek_tag"} =>
        /\ self_i >= operation.before
        /\ self_i <= Len(self_data)

\* C24: peek_tag leaves the cursor where it was, whether the tag has one byte,
\* an extended length byte, or is cut short and DecodingError is raised; and it
\* returns the (number, class, length) that read_tag returns from there.
C24_PeekRestoresCursor ==
    Did("peek_tag") =>
        /\ self_i = operation.before
        /\ read_tag(self_data, self_i).ok = operation.result.ok
        /\ read_tag(self_data, self_i).v = operation.result.v
        /\ ~operation.result.ok =>
              /\ operation.result.err = "DecodingError"
              /\ Len(self_data) - self_i < 2

\* A tag with an extended length byte was peeked at the start of the buffer.
C24_PeekedExtendedTag ==
    /\ Did("peek_tag")
    /\ self_data = <<AppTag(7, 5), 2, 0, 79>>
    /\ operation.before = 0
    /\ operation.result.ok
    /\ operation.result.v = TagOf(7, 0, 2)
    /\ read_tag(self_data, self_i).i = 2
    /\ self_i = 0

(***************************************************************************)
(* Properties of the request builders.                                     *)
(***************************************************************************)

\* The request built, once a builder has returned one.
Built == encoded.op # "none" /\ encoded.result.ok
Request == encoded.result.bytes

\* Where the first descriptor's object identifier starts in a request: after the
\* BVLC header, the NPDU and the four bytes of the request header.
FirstIdentifier == BVLC_LENGTH + Len(NPDU) + 4

\* C25: the object identifier of a request's first descriptor is context tag 0
\* with the big-endian word (object_type << 22) | (instance_id & 0x3FFFFF),
\* whose upper 10 bits are the descriptor's object type.
C25_ObjectIdentifierWord ==
    (Built /\ encoded.args # <<>>) =>
        /\ Slice(Request, FirstIdentifier, FirstIdentifier + 5) =
              <<CtxTag(0, 4)>>
              \o PackI(encoded.args[1][1] * Pow2(TAG_OBJECT_TYPE_SHIFT)
                       + (encoded.args[1][2] % Pow2(TAG_OBJECT_TYPE_SHIFT)))
        /\ ObjectTypeBits(Slice(Request, FirstIdentifier + 1, FirstIdentifier + 5)) =
              encoded.args[1][1]

\* Whether the last call built a ReadPropertyMultiple request.
BuiltRead == encoded.op = "_read_property_multiple" /\ encoded.result.ok

\* m_i: the number of property ids of the i-th descriptor of the request.
PropertyCount(k) == Len(Construct(encoded.args[k]).read_values)

\* The sum of per(m_i) over the descriptors from the k-th on.
RECURSIVE SumFrom(_, _, _)
SumFrom(k, fixed, each) ==
    IF k > Len(encoded.args) THEN 0
    ELSE fixed + each * PropertyCount(k) + SumFrom(k + 1, fixed, each)

\* C26: the byte length of a ReadPropertyMultiple request built from N
\* descriptors with m_i property ids is 10 + the sum of (5 + 1 + 2*m_i + 1):
\* 4 bytes of BVLC, 2 of NPDU, 4 of request header, and per descriptor the
\* object identifier, one opening tag, two bytes per property id and one
\* closing tag.
C26_RequestLength ==
    BuiltRead => Len(Request) = 10 + SumFrom(1, 5 + 1 + 1, 2)

\* A request for one descriptor with two property ids has 21 bytes.
C26_OneDescriptorTwoProperties ==
    /\ BuiltRead
    /\ Len(encoded.args) = 1
    /\ PropertyCount(1) = 2
    /\ Len(Request) = 21

\* C26 as stated: the byte length is 8 + the sum of (5 + 2 + 2*m_i + 1).
C26_StatedRequestLength ==
    BuiltRead => Len(Request) = 8 + SumFrom(1, 5 + 2 + 1, 2)

\* The APDU of the request built: what follows the BVLC header and the NPDU.
RequestApdu == From(Request, BVLC_LENGTH + Len(NPDU))

\* Scenario S1: ReadPropertyMultiple for the one descriptor
\* (ANALOG_VALUE, 134, [PRESENT_VALUE]).
BuiltS1 ==
    /\ BuiltRead
    /\ encoded.args = <<<<ANALOG_VALUE, 134, <<PRESENT_VALUE>>, 0, 0>>>>

\* C27: the APDU of scenario S1 is 02 44 01 0E 0C 00 80 00 86 1E 09 55 1F: the
\* request header with the segmented-response flag and 4/4 for segments and
\* APDU size, then the read access spec.
C27_ScenarioS1 ==
    BuiltS1 => RequestApdu = <<2, 68, 1, 14, 12, 0, 128, 0, 134, 30, 9, 85, 31>>

\* Scenario S1 was encoded, in a datagram of 19 bytes.
C27_EncodedS1 ==
    /\ BuiltS1
    /\ Len(Request) = 19
    /\ Slice(RequestApdu, 4, 13) = <<12, 0, 128, 0, 134, 30, 9, 85, 31>>

\* C27 as stated: the APDU of scenario S1 is
\* 00 04 01 0E 0C 00 80 00 86 1E 09 55 1F.
C27_StatedScenarioS1 ==
    BuiltS1 => RequestApdu = <<0, 4, 1, 14, 12, 0, 128, 0, 134, 30, 9, 85, 31>>

\* Whether the last call built a WriteProperty request, and the constructor
\* arguments of its descriptor.
BuiltWrite == encoded.op = "_write_property" /\ encoded.result.ok
Written_object_type == encoded.args[1][1]
Written_priority == encoded.args[1][4]
Written_write_type == encoded.args[1][5]

\* Where the opening tag of the value starts in a WriteProperty request: after
\* the object identifier and the two bytes of the property identifier.
ValueStart == FirstIdentifier + 5 + 2

\* Scenario S4: WriteProperty of 20.5 to (ANALOG_VALUE, 127) at priority 16.
BuiltS4 ==
    /\ BuiltWrite
    /\ Written_object_type = ANALOG_VALUE
    /\ encoded.args[1][2] = 127
    /\ Written_priority = 16
    /\ encoded.value = FloatValue(41)

\* C29: in scenario S4 the primitive between the opening and the closing tag 3
\* is 44 41 A4 00 00, application tag 4 of length 4 and the Real 20.5, followed
\* by context tag 4 of length 1 with the value 0x10.
C29_ScenarioS4 ==
    BuiltS4 => From(Request, ValueStart) = <<62, 68, 65, 164, 0, 0, 63, 73, 16>>

\* Scenario S4 was encoded for a descriptor with the write_type hint Real.
C29_EncodedS4 ==
    /\ BuiltS4
    /\ Written_write_type = WriteType_Real
    /\ Len(Request) = ValueStart + 9
    /\ Slice(Request, FirstIdentifier, ValueStart) = <<12, 0, 128, 0, 127, 25, 85>>

\* C29 as stated: in scenario S4 the primitive is 4C 41 A4 00 00.
C29_StatedScenarioS4 ==
    BuiltS4 => From(Request, ValueStart) = <<62, 76, 65, 164, 0, 0, 63, 73, 16>>

\* The primitive of the request: the bytes between the opening tag 3 and the
\* closing tag 3, which the priority, if any, follows in two bytes.
Primitive ==
    Slice(Request, ValueStart + 1,
          Len(Request) - 1 - (IF Written_priority # 0 THEN 2 ELSE 0))

\* The request for the same arguments with another write_type hint.
WithHint(write_type) ==
    _write_property(DeviceProperty(encoded.args[1][1], encoded.args[1][2],
                                   encoded.args[1][3], encoded.args[1][4], write_type),
                    encoded.value)

\* C30: the primitive of a WriteProperty request is 00 for None whatever the
\* object type, otherwise application tag 4 with 4 bytes for ANALOG_VALUE,
\* application tag 9 with 1 byte for BINARY_VALUE and application tag 2 with 1
\* byte for every other object type; and the descriptor's write_type changes
\* nothing in the request.
C30_PrimitiveByObjectType ==
    encoded.op = "_write_property" =>
        /\ \A write_type \in {0, WriteType_UnsignedInt, WriteType_Real, WriteType_Enumerated} :
              WithHint(write_type) = encoded.result
        /\ encoded.result.ok =>
              CASE encoded.value = NoneValue -> Primitive = <<0>>
                [] encoded.value # NoneValue /\ Written_object_type = ANALOG_VALUE ->
                      Len(Primitive) = 5 /\ Primitive[1] = 68
                [] encoded.value # NoneValue /\ Written_object_type = BINARY_VALUE ->
                      Primitive = <<145, encoded.value.n>>
                [] OTHER -> Primitive = <<33, encoded.value.n>>

\* A BINARY_VALUE descriptor with the hint Real wrote 1 as an Enumerated.
C30_HintIgnored ==
    /\ BuiltWrite
    /\ Written_object_type = BINARY_VALUE
    /\ Written_write_type = WriteType_Real
    /\ encoded.value = IntValue(1)
    /\ Primitive = <<145, 1>>

\* ------------------------------------------- the encoders under the decoder

Packed(method) == encoded.op = method /\ encoded.result.ok

\* The decoder ran the method from the cursor it was built with.
RanFrom(method, offset) == Did(method) /\ operation.before = offset

\* The Python value the decoder returns for a value written.
Decoded(value) == IF value.t = "None" THEN PyNone ELSE PyInt(value.n)

\* C31: parse_object_identifier on the bytes of apdu_object_identifier returns
\* the (object_type, instance_id) packed and stops after them, for every object
\* type and both ends of 0..0x3FFFFF; and on the Null, UnsignedInt and
\* Enumerated primitive of a write access spec, read_application_tag followed by
\* parse_value_element returns the value written and stops at the closing tag,
\* having consumed the bytes of the primitive.
C31_RoundTrip ==
    /\ (/\ Packed("apdu_object_identifier") \/ Packed("write_access_spec")
        /\ RanFrom("parse_object_identifier", 0))
       => /\ operation.result.ok
          /\ operation.result.v = ObjectId(encoded.args[1], encoded.args[2])
          /\ self_i = Len(apdu_object_identifier(
                             DeviceProperty(encoded.args[1], encoded.args[2], <<>>, 0, 0)))
    /\ (/\ Packed("write_access_spec")
        /\ encoded.value.t = "None" \/ encoded.args[1] # ANALOG_VALUE
        /\ RanFrom("read_application_tag; parse_value_element", PrimitiveOffset))
       => /\ operation.result.ok
          /\ operation.result.v = Decoded(encoded.value)
          /\ self_i = operation.before
                      + Len(WritePrimitive(encoded.args[1], encoded.value).bytes)
          /\ At(self_data, self_i) = CtxTag(3, TAG_CLOSE)

\* The identifier of (POSITIVE_INTEGER_VALUE, 0x3FFFFF) came back.
C31_LargestIdentifierBack ==
    /\ Packed("apdu_object_identifier")
    /\ encoded.args = <<POSITIVE_INTEGER_VALUE, Pow2(TAG_OBJECT_TYPE_SHIFT) - 1>>
    /\ RanFrom("parse_object_identifier", 0)
    /\ operation.result.ok
    /\ operation.result.v.object_type = POSITIVE_INTEGER_VALUE
    /\ operation.result.v.instance_number = 4194303

\* The Enumerated 255 written to a BINARY_VALUE came back.
C31_EnumeratedBack ==
    /\ Packed("write_access_spec")
    /\ encoded.args[1] = BINARY_VALUE
    /\ encoded.value = IntValue(255)
    /\ RanFrom("read_application_tag; parse_value_element", PrimitiveOffset)
    /\ operation.result.ok
    /\ operation.result.v = PyInt(255)
    /\ self_i = PrimitiveOffset + 2

\* The arguments of the Tag packed.
Packed_number == encoded.args[1]
Packed_is_context == encoded.args[2]
Packed_length_type == encoded.args[3]

\* C36: read_tag on the byte of Tag(number, is_context, length_type).pack()
\* returns (number, class, length_type) and consumes that one byte when
\* length_type is not 5, the class being 1 exactly for a context tag; when
\* length_type is 5 and a byte follows, read_tag consumes that byte too and
\* returns it as the length.
C36_TagCodec ==
    (Packed("Tag.pack") /\ RanFrom("read_tag", 0))
    => /\ (At(encoded.result.bytes, 0) \div 8) % 2 = 1 <=> Packed_is_context
       /\ Packed_length_type # 5
          => /\ operation.result.ok
             /\ operation.result.v = TagOf(Packed_number,
                                           IF Packed_is_context THEN 1 ELSE 0,
                                           Packed_length_type)
             /\ self_i = 1
       /\ (Packed_length_type = 5 /\ Len(self_data) > 1)
          => /\ operation.result.ok
             /\ operation.result.v = TagOf(Packed_number,
                                           IF Packed_is_context THEN 1 ELSE 0,
                                           At(self_data, 1))
             /\ self_i = 2

\* The application tag 7 with an extended length of 79 came back.
C36_ExtendedLengthBack ==
    /\ Packed("Tag.pack")
    /\ encoded.args = <<7, FALSE, 5>>
    /\ self_data = <<117, 79>>
    /\ RanFrom("read_tag", 0)
    /\ operation.result.ok
    /\ operation.result.v = TagOf(7, 0, 79)
    /\ self_i = 2

\* --------------------------------------------------- the decoder's loops

\* The bytes at cursor i are the wrapper of the primitives.
WrapperAt(i, primitives) ==
    /\ i + Len(Wrapped(primitives)) <= Len(self_data)
    /\ Slice(self_data, i, i + Len(Wrapped(primitives))) = Wrapped(primitives)

\* C35: read_value on a propertyValue wrapper that holds one or more
\* application-tagged primitives returns a value and stops after the closing
\* tag, whatever the property identifier.
C35_PrimitivesAccepted ==
    \A primitives \in PrimitiveLists \ {<<>>} :
        (Did("read_value") /\ WrapperAt(operation.before, primitives))
        => /\ operation.result.ok
           /\ self_i = operation.before + Len(Wrapped(primitives))

\* A loop went round: the iteration returned without leaving through break.
WentRound(loop) ==
    /\ Did(loop)
    /\ operation.result.ok
    /\ ~operation.result.v.break

\* C40: the cursor never passes the end of the buffer, and every iteration of
\* the object loop, of the property loop and of the priority-array element loop
\* that goes round again leaves the cursor strictly greater than it found it,
\* so each loop ends after at most as many iterations as there are bytes.
C40_IterationsAdvance ==
    /\ self_i <= Len(self_data)
    /\ \A loop \in {"object iteration", "property iteration", "element iteration"} :
          WentRound(loop) => self_i > operation.before

\* The element loop read a character string of length 0, whose read_bytes(-1)
\* steps back over the encoding byte, and is one byte further.
C40_EmptyStringElement ==
    /\ WentRound("element iteration")
    /\ At(self_data, operation.before) = AppTag(7, 0)
    /\ operation.result.v.item = PyStr(<<>>)
    /\ self_i = operation.before + 1

\* ------------------------------------------------ the client's datagrams

\* d is BVLC || NPDU || APDU: type 0x81, function 0x0A, a 16-bit length that is
\* the length of all of d, and the NPDU 01 04.
WellFramed(d) ==
    /\ Len(d) >= 6
    /\ d[1] = 129
    /\ d[2] = 10
    /\ d[3] * 256 + d[4] = Len(d)
    /\ d[5] = 1
    /\ d[6] = 4

\* The call went through the segmented branch to the decoder.
Reassembled ==
    /\ op = "read"
    /\ pc = "done"
    /\ decoder_input # <<>>
    /\ MoreFollows(received[1]) \/ MarkedSegmented(received[1])

\* C32: every datagram the client builds is framed as BVLC || NPDU || APDU with
\* type 0x81, function 0x0A, NPDU 01 04 and a BVLC length equal to the length
\* of the whole datagram: each datagram it sends (the ReadPropertyMultiple or
\* WriteProperty request and every SegmentAck) and the response it puts
\* together from the segments for the decoder.
C32_DatagramsFramed ==
    /\ \A j \in 1..Len(sent) : WellFramed(sent[j])
    /\ Reassembled => WellFramed(decoder_input[1])

\* A reply of two segments was acknowledged twice and put together.
C32_ReassembledAndFramed ==
    /\ Reassembled
    /\ Len(received) = 2
    /\ Len(sent) = 3
    /\ decoder_input[1] \notin {received[1], received[2]}
    /\ Len(decoder_input[1]) > 9
    /\ decoder_input[1][4] = Len(decoder_input[1])

\* The sequence number a segment carries.
SequenceNumberOf(d) == At(ApduOf(d), 2)

\* The segmented branch was entered: the first reply is a segment with its five
\* header bytes and no transport error was found on it.
Segmenting ==
    /\ op = "read"
    /\ received # <<>>
    /\ Len(ApduOf(received[1])) >= 5
    /\ TypeOf(received[1]) = APDU_COMPLEX_ACK
    /\ MoreFollows(received[1]) \/ MarkedSegmented(received[1])
    /\ outcome.err # "ConnectionError"

\* The last datagram taken is a COMPLEX_ACK of the first segment's invoke id with
\* its four header bytes, whatever its sequence number.
LastIsSegment ==
    /\ IsSegment(received[Len(received)], Len(received))
    /\ InvokeIdOf(received[Len(received)]) = InvokeIdOf(received[1])

\* The loop over the segments refused the last datagram taken.
RefusedInLoop ==
    /\ pc = "done"
    /\ Len(received) >= 2
    /\ decoder_input = <<>>
    /\ outcome.kind = "raise"
    /\ outcome.err \in {"DecodingError", "IndexError"}

\* C33: the client neither detects gaps nor reorders. While segments are
\* awaited, the parts kept are the payloads of the datagrams taken, in arrival
\* order, and the SegmentAcks sent are one per datagram taken, each with that
\* datagram's sequence number and window size; no segment of the right type and
\* invoke id is refused, whatever its sequence number; and the response put
\* together is the arrival-order concatenation.
C33_NoSequenceCheck ==
    Segmenting =>
        /\ pc = "await_segment"
              => /\ data_parts = PayloadsOf(received)
                 /\ Acks = AcksFor(received)
        /\ RefusedInLoop => ~LastIsSegment
        /\ Reassembled
              => /\ Acks = AcksFor(received)
                 /\ From(ApduOf(decoder_input[1]), 3) = Join(PayloadsOf(received))

\* Segments 0, 2, 1 were taken in that order, acknowledged as 0, 2, 1 and put
\* together in that order, which is not the order of their sequence numbers.
C33_OutOfOrderRead ==
    /\ Reassembled
    /\ Len(received) = 3
    /\ [j \in 1..3 |-> SequenceNumberOf(received[j])] = <<0, 2, 1>>
    /\ [j \in 1..3 |-> SequenceNumberOf(Acks[j])] = <<0, 2, 1>>
    /\ From(ApduOf(decoder_input[1]), 3) = PayloadHead \o PayloadHead \o PayloadTail
    /\ PayloadHead \o PayloadHead \o PayloadTail # PayloadHead \o PayloadTail \o PayloadHead

\* The datagrams taken that the segmented branch accepts as segments: the first
\* reply, and each later COMPLEX_ACK of the first segment's invoke id that has
\* its four header bytes.
AcceptedSegments ==
    IF ~Segmenting THEN {}
    ELSE {1} \cup {j \in 2..Len(received) :
                     /\ IsSegment(received[j], j)
                     /\ InvokeIdOf(received[j]) = InvokeIdOf(received[1])}

\* The last datagram taken came after the first segment and has another APDU
\* type or another invoke id than the first segment.
LastIsForeign ==
    /\ Segmenting
    /\ Len(received) >= 2
    /\ Len(ApduOf(received[Len(received)])) >= 1
    /\ \/ TypeOf(received[Len(received)]) # APDU_COMPLEX_ACK
       \/ /\ CarriesInvokeId(received[Len(received)])
          /\ InvokeIdOf(received[Len(received)]) # InvokeIdOf(received[1])

\* C37: a segment is acknowledged only once it is accepted. The SegmentAcks sent
\* are as many as the segments accepted, and a later segment of another APDU type
\* or another invoke id ends read_multiple with DecodingError before the decoder
\* is called, the SegmentAcks sent being those of the segments before it.
C37_AckAfterValidation ==
    op = "read" =>
        /\ Len(Acks) = Cardinality(AcceptedSegments)
        /\ LastIsForeign
              => /\ pc = "done"
                 /\ outcome = Raised("DecodingError")
                 /\ decoder_input = <<>>
                 /\ Acks = AcksFor(SubSeq(received, 1, Len(received) - 1))

\* After two segments of invoke id 1 a segment of invoke id 2 was refused, and
\* two SegmentAcks were sent.
C37_ForeignSegmentRefused ==
    /\ LastIsForeign
    /\ Len(received) = 3
    /\ InvokeIdOf(received[1]) = 1
    /\ TypeOf(received[3]) = APDU_COMPLEX_ACK
    /\ InvokeIdOf(received[3]) = 2
    /\ Len(Acks) = 2
    /\ outcome = Raised("DecodingError")

\* The segments the request advertises it accepts: 16, encoded as 4.
SegmentsAdvertised == Pow2(MAX_RESPONSE_SEGMENTS)

\* C34: read_multiple accepts at most the 16 segments its request advertised,
\* so that a peer that keeps sending segments with MORE_SEGMENTS set cannot keep
\* the call waiting for segments without end.
C34_AtMostSixteenSegments ==
    op = "read" => Cardinality(AcceptedSegments) <= SegmentsAdvertised

\* C38: every SegmentAck the client sends carries invoke id 1; a segmented reply
\* whose first segment carries another invoke id is refused before any
\* SegmentAck is sent.
C38_AcksCarryOwnInvokeId ==
    op = "read" => \A j \in 1..Len(Acks) : InvokeIdOf(Acks[j]) = INVOKE_ID

\* C39: on the write path connection_lost never calls set_result on a future
\* that is already done or cancelled, so no InvalidStateError is raised into the
\* loop, and _send never reads an attribute of the request before it is
\* assigned.
C39_DoneResolvedOnce ==
    op = "write" =>
        /\ unhandled # "InvalidStateError"
        /\ outcome.err # "AttributeError"

====
